---- MODULE Spec2Model ----
(***************************************************************************)
(* A model of the content-acquisition pipeline: the scraping variants and  *)
(* the ScrapingManager that orders them (services/), the multi-source      *)
(* extraction coordinator (services/deepseek_service.py), the pipeline run *)
(* (app.py, process_extraction) and the reconciliation actions of the      *)
(* results table (app.py and components/results_table.py).                 *)
(***************************************************************************)
EXTENDS Integers, Sequences, FiniteSets, TLC

(***************************************************************************)
(* Values                                                                  *)
(***************************************************************************)

\* Python's None, and a dictionary key that is not there.
None == "None"
NoKey == "<absent>"

\* Markdown texts: the empty string, a text of line breaks only (what the
\* HTML-to-text conversion gives for a page without text) and a product text.
EMPTY == ""
BLANK == "\n"
TEXT == "# Product specification"
Markdowns == {EMPTY, BLANK, TEXT}

\* URLs handed to the manager: empty, whitespace-only, and a product page.
GoodUrl == "https://shop.example/p1"
Urls == {"", " ", GoodUrl}

\* Python's str.strip() on the strings of the model.
Strip(s) == IF s \in {"", " ", "  ", BLANK} THEN "" ELSE s

\* Python's truth value of a string.
Truthy(s) == s # "" /\ s # None /\ s # NoKey

Variants == {"BS4", "Crawl4AI", "Playwright", "Firecrawl"}
Methods == {"Auto", "BS4", "Crawl4AI", "Playwright", "Firecrawl", "Selenium"}

\* A scrape result (the dictionaries the services return).
\* exc is not a key of the dictionary: it is None for a returned result and
\* names the exception when the call raised instead of returning.
Result(s, m, e, f) ==
    [success |-> s, markdown |-> m, error |-> e, filename |-> f, exc |-> None]
Raise(e) ==
    [success |-> FALSE, markdown |-> NoKey, error |-> NoKey, filename |-> NoKey, exc |-> e]
NoResult == Result(FALSE, NoKey, NoKey, NoKey)
Returned(r) == r # NoResult /\ r.exc = None

\* What one call of a variant did: its result, the outgoing requests (or
\* browser launches) it made, and the lines it logged.
Outcome(r, n, l) == [result |-> r, requests |-> n, lines |-> l]

(***************************************************************************)
(* The artifact store: _save_markdown of every variant                     *)
(***************************************************************************)

\* _save_markdown returns the file name, or "" when writing the file raised.
SaveMarkdownMutant(tag, saveOk) == "shop_example_" \o tag \o ".md"
SaveMarkdown(tag, saveOk) == IF saveOk THEN "shop_example_" \o tag \o ".md" ELSE ""

(***************************************************************************)
(* HTML to text                                                            *)
(***************************************************************************)

\* A fetched page, by what it holds: product text, or no text at all.
Pages == {"product", "blank"}

\* The filtered HTML handed to html2text's handle(): a page with text gives
\* its text, a page without text gives a line break.
HtmlToMarkdown(page) == IF page = "product" THEN TEXT ELSE BLANK

(***************************************************************************)
(* Variant A: BS4Service                                                   *)
(***************************************************************************)

max_retries == 3

\* What one GET can do: a 200 answer with a page, a blocking status, another
\* error status (raise_for_status), a timeout, a connection error, or a URL
\* that requests refuses (MissingSchema, InvalidURL).
BS4Responses == {"200 product", "200 blank", "403", "404", "429", "503",
                 "timeout", "connection", "invalid url"}

\* A URL without scheme never leaves the machine: requests raises on it.
BS4ResponsesFor(url) == IF Strip(url) = "" THEN {"invalid url"} ELSE BS4Responses \ {"invalid url"}

BS4Error(resp) ==
    CASE resp = "403" -> "403 Forbidden - Site may be blocking requests"
      [] resp = "429" -> "429 Too Many Requests - Rate limited"
      [] resp = "503" -> "503 Service Unavailable - May need retry"
      [] resp = "404" -> "404 Client Error"
      [] resp = "timeout" -> "Request timed out"
      [] resp = "connection" -> "Connection error"
      [] OTHER -> "Invalid URL"

\* The retry loop of BS4Service.scrape_url from attempt `attempt` on; resps[k]
\* is what the k-th GET does, last_error the error of the previous attempt.
RECURSIVE BS4Loop(_, _, _, _, _)
BS4Loop(resps, attempt, last_error, saveOk, lines) ==
    IF attempt >= max_retries
    THEN Outcome(Result(FALSE, "", last_error, ""), attempt,
                 Append(lines, "BS4: Failed after attempts"))
    ELSE LET resp == resps[attempt]
             retry == IF attempt > 0 THEN Append(lines, "BS4: Retry") ELSE lines
         IN  IF resp \in {"200 product", "200 blank"}
             THEN LET page == IF resp = "200 product" THEN "product" ELSE "blank"
                  IN  Outcome(Result(TRUE, HtmlToMarkdown(page), None,
                                     SaveMarkdown("bs4", saveOk)),
                              attempt + 1,
                              Append(retry, "BS4: Successfully scraped"))
             ELSE BS4Loop(resps, attempt + 1, BS4Error(resp), saveOk,
                          Append(retry, "BS4: Error on attempt"))

BS4Service_scrape_url(resps, saveOk) ==
    BS4Loop(resps, 0, None, saveOk, <<"BS4: Starting scrape">>)

BS4Outcomes(url) ==
    {BS4Service_scrape_url(resps, saveOk) :
        resps \in [0..(max_retries - 1) -> BS4ResponsesFor(url)], saveOk \in BOOLEAN}
BS4OutcomesGood == BS4Outcomes(GoodUrl)
BS4OutcomesBlank == BS4Outcomes("")
BS4OutcomesFor(url) == IF Strip(url) = "" THEN BS4OutcomesBlank ELSE BS4OutcomesGood

(***************************************************************************)
(* Variant C: Crawl4AIService                                              *)
(***************************************************************************)

\* What the crawling engine does: it raises, it reports failure, it returns
\* no markdown, or it returns markdown `raw` with HTML that is missing
\* ("none"), filters to fewer than 500 characters ("small") or filters to a
\* page ("product", "blank").
Crawl4AIRuns ==
    {[kind |-> k, raw |-> "", html |-> "none"] :
        k \in {"exception", "crawl failed", "no markdown"}}
    \cup {[kind |-> "ok", raw |-> r, html |-> h] :
              r \in {BLANK, TEXT}, h \in {"none", "small"} \cup Pages}

Crawl4AIRunsFor(url) ==
    IF Strip(url) = "" THEN {c \in Crawl4AIRuns : c.kind \in {"exception", "crawl failed"}}
    ELSE Crawl4AIRuns

\* available is CRAWL4AI_AVAILABLE: whether the crawl4ai package imported.
Crawl4AIService_scrape_url(available, run, saveOk) ==
    IF ~available
    THEN Outcome(Result(FALSE, "", "Crawl4AI not installed", ""), 0,
                 <<"Crawl4AI not installed">>)
    ELSE IF run.kind = "exception"
    THEN Outcome(Result(FALSE, "", "engine error", ""), 1,
                 <<"Crawl4AI: Fetching", "Crawl4AI: Failed">>)
    ELSE IF run.kind = "crawl failed"
    THEN Outcome(Result(FALSE, "", "Crawl failed", ""), 1,
                 <<"Crawl4AI: Fetching", "Crawl4AI: Failed">>)
    ELSE IF ~Truthy(run.raw) \/ run.kind = "no markdown"
    THEN Outcome(Result(FALSE, "", "No markdown content returned", ""), 1,
                 <<"Crawl4AI: Fetching", "Crawl4AI: Failed">>)
    ELSE LET markdown == IF run.html \in Pages THEN HtmlToMarkdown(run.html)
                         ELSE run.raw
         IN  Outcome(Result(TRUE, markdown, None, SaveMarkdown("c4ai", saveOk)), 1,
                     <<"Crawl4AI: Fetching", "Crawl4AI: Successfully scraped">>)

Crawl4AIOutcomes(url, available) ==
    {Crawl4AIService_scrape_url(available, run, saveOk) :
        run \in Crawl4AIRunsFor(url), saveOk \in BOOLEAN}

(***************************************************************************)
(* Variant B: PlaywrightService                                            *)
(***************************************************************************)

\* str.split on line breaks and its inverse, on the markdown texts of the model.
Lines(md) == IF md = EMPTY THEN <<"">> ELSE IF md = BLANK THEN <<"", "">> ELSE <<md>>
Join(ls) == IF ls = <<"">> \/ ls = <<>> THEN EMPTY
            ELSE IF ls = <<"", "">> THEN BLANK ELSE ls[1]

\* The lines _clean_markdown drops by pattern (menu and footer headings,
\* legal and social lines); none of the model's lines is one.
SkipPattern(line) == line \in {"# Menu", "Privacy Policy", "Follow us"}

\* _clean_markdown: an empty line after an empty line is dropped, a line
\* matching a skip pattern is dropped, everything else is kept.
RECURSIVE CleanLines(_, _)
CleanLines(ls, cleaned) ==
    IF ls = <<>> THEN cleaned
    ELSE LET line == Head(ls)
         IN  IF Strip(line) = ""
             THEN IF cleaned # <<>> /\ Strip(cleaned[Len(cleaned)]) = ""
                  THEN CleanLines(Tail(ls), cleaned)
                  ELSE CleanLines(Tail(ls), Append(cleaned, line))
             ELSE IF SkipPattern(line) THEN CleanLines(Tail(ls), cleaned)
             ELSE CleanLines(Tail(ls), Append(cleaned, line))

CleanMarkdown(md) == Join(CleanLines(Lines(md), <<>>))

\* What the browser session does: an exception outside the navigation's own
\* try block, a navigation that raised (page.goto or the wait for network
\* idle), or a page that loaded.
PlaywrightRuns == {"exception", "navigation error", "loaded product", "loaded blank"}
PlaywrightRunsFor(url) ==
    IF Strip(url) = "" THEN {"exception", "navigation error"} ELSE PlaywrightRuns

\* The content of the page after the navigation step. The bare except around
\* it swallows a failed page.goto, and the session goes on with the page the
\* browser has: the empty start page, or whatever loaded before a timeout.
PageAfterNavigation(run) == IF run = "loaded product" THEN "product" ELSE "blank"

\* installed is sync_playwright: whether the playwright package imported.
PlaywrightService_scrape_url(installed, run, saveOk) ==
    IF ~installed
    THEN Outcome(Result(FALSE, "", "Playwright not installed", ""), 0, <<>>)
    ELSE IF run = "exception"
    THEN Outcome(Result(FALSE, "", "browser error", ""), 1,
                 <<"Playwright: Fetching", "Playwright: Failed">>)
    ELSE LET markdown == CleanMarkdown(HtmlToMarkdown(PageAfterNavigation(run)))
         IN  Outcome(Result(TRUE, markdown, None, SaveMarkdown("pw", saveOk)), 1,
                     <<"Playwright: Fetching", "Playwright: Successfully scraped">>)

PlaywrightOutcomes(url, installed) ==
    {PlaywrightService_scrape_url(installed, run, saveOk) :
        run \in PlaywrightRunsFor(url), saveOk \in BOOLEAN}

(***************************************************************************)
(* Variant D: FirecrawlService                                             *)
(***************************************************************************)

MAX_RETRIES == 3

\* A markdown body made of a noise section only.
NOISE == "## Related products"

\* _filter_markdown on the bodies of the model: a noise section is dropped
\* whole, and the result is stripped.
FilterMarkdown(raw) == IF raw = NOISE THEN "" ELSE Strip(raw)

\* What one POST to the scrape endpoint can do: a 200 answer whose JSON holds
\* markdown, holds none (no "data", no "markdown", or an empty one), holds
\* noise only, or is not the expected object (a list, "data": null); another
\* status; a timeout; another requests exception.
FirecrawlResponses == {"200 markdown", "200 empty", "200 noise", "200 bad shape",
                       "http error", "timeout", "request error"}
FirecrawlResponsesFor(url) ==
    IF Strip(url) = "" THEN {"http error", "timeout", "request error"}
    ELSE FirecrawlResponses

FirecrawlError(resp) ==
    CASE resp = "http error" -> "HTTP 500"
      [] resp = "timeout" -> "Request timeout"
      [] OTHER -> "request error"

\* data.get("data", {}).get("markdown", "") of a 200 answer.
RawMarkdown(resp) ==
    CASE resp = "200 markdown" -> TEXT
      [] resp = "200 noise" -> NOISE
      [] OTHER -> ""

\* The retry loop of FirecrawlService.scrape_url from attempt `attempt` on.
RECURSIVE FirecrawlLoop(_, _, _, _)
FirecrawlLoop(resps, attempt, saveOk, lines) ==
    IF attempt >= MAX_RETRIES
    THEN Outcome(Result(FALSE, "", "Max retries exceeded", NoKey), attempt, lines)
    ELSE LET resp == resps[attempt]
             tried == Append(lines, "Firecrawl: Attempt")
         IN  IF resp = "200 bad shape"
             THEN Outcome(Raise("AttributeError"), attempt + 1, tried)
             ELSE IF resp \in {"200 markdown", "200 empty", "200 noise"}
             THEN Outcome(Result(TRUE, FilterMarkdown(RawMarkdown(resp)), None,
                                 SaveMarkdown("fc", saveOk)),
                          attempt + 1,
                          Append(tried, "Firecrawl: Successfully scraped"))
             ELSE IF attempt = MAX_RETRIES - 1
             THEN Outcome(Result(FALSE, "", FirecrawlError(resp), NoKey), attempt + 1,
                          Append(tried, "Firecrawl: Error"))
             ELSE FirecrawlLoop(resps, attempt + 1, saveOk,
                                Append(tried, "Firecrawl: Error"))

\* configured is whether self.api_key is set.
FirecrawlService_scrape_urlMutant(configured, resps, saveOk) ==
    FirecrawlLoop(resps, 0, saveOk, <<"Firecrawl: Starting scrape">>)
FirecrawlService_scrape_url(configured, resps, saveOk) ==
    IF ~configured
    THEN Outcome(Result(FALSE, "", "Firecrawl API key not configured", NoKey), 0, <<>>)
    ELSE FirecrawlLoop(resps, 0, saveOk, <<"Firecrawl: Starting scrape">>)

FirecrawlOutcomes(url, configured) ==
    {FirecrawlService_scrape_url(configured, resps, saveOk) :
        resps \in [0..(MAX_RETRIES - 1) -> FirecrawlResponsesFor(url)],
        saveOk \in BOOLEAN}
FirecrawlOutcomesGood == FirecrawlOutcomes(GoodUrl, TRUE)
FirecrawlOutcomesBlank == FirecrawlOutcomes("", TRUE)
FirecrawlOutcomesNoKey == FirecrawlOutcomes("", FALSE)
FirecrawlOutcomesFor(url, configured) ==
    IF ~configured THEN FirecrawlOutcomesNoKey
    ELSE IF Strip(url) = "" THEN FirecrawlOutcomesBlank ELSE FirecrawlOutcomesGood

(***************************************************************************)
(* ScrapingManager                                                         *)
(***************************************************************************)

\* The runtime a manager is built in: which service objects __init__ got
\* (a service module that failed to import leaves None), which optional
\* packages the service modules found, and whether the API key is set.
Runtimes ==
    [crawl4ai_service : BOOLEAN, playwright_service : BOOLEAN,
     CRAWL4AI_AVAILABLE : BOOLEAN, sync_playwright : BOOLEAN,
     FIRECRAWL_API_KEY : BOOLEAN]

\* The fallback order of _scrape_auto.
AutoOrder == <<"BS4", "Crawl4AI", "Playwright", "Firecrawl">>

\* `if self.crawl4ai_service:` and `if self.playwright_service:`; the BS4 and
\* Firecrawl services are always constructed.
ServiceHeld(v, rt) ==
    CASE v = "Crawl4AI" -> rt.crawl4ai_service
      [] v = "Playwright" -> rt.playwright_service
      [] OTHER -> TRUE

\* Everything one call of variant v's scrape_url can do.
VariantOutcomes(v, url, rt) ==
    CASE v = "BS4" -> BS4OutcomesFor(url)
      [] v = "Crawl4AI" -> Crawl4AIOutcomes(url, rt.CRAWL4AI_AVAILABLE)
      [] v = "Playwright" -> PlaywrightOutcomes(url, rt.sync_playwright)
      [] OTHER -> FirecrawlOutcomesFor(url, rt.FIRECRAWL_API_KEY)

\* A call of the manager in progress: the last result, the lines logged and
\* the variants invoked so far, each with what it returned.
Call(r, l, i) == [result |-> r, log |-> l, invoked |-> i]

Invoke(call, v, o) ==
    Call(o.result, call.log \o o.lines,
         Append(call.invoked, [variant |-> v, result |-> o.result]))

Logged(call, line) == Call(call.result, Append(call.log, line), call.invoked)

\* `if res["success"]: return res`
StopsMutant(res) == FALSE
Stops(res) == res.success

\* _scrape_auto from the i-th variant of the order on: the set of ways the
\* call can end. An exception raised by a variant ends the call at once.
RECURSIVE ScrapeAutoFrom(_, _, _, _)
ScrapeAutoFrom(i, call, url, rt) ==
    LET v == AutoOrder[i]
        trying == Logged(call, "Auto: Trying " \o v)
    IN  IF ~ServiceHeld(v, rt) THEN ScrapeAutoFrom(i + 1, call, url, rt)
        ELSE UNION {
            LET done == Invoke(trying, v, o)
            IN  IF i = Len(AutoOrder) \/ o.result.exc # None \/ Stops(o.result)
                THEN {done}
                ELSE ScrapeAutoFrom(i + 1, Logged(done, v \o " Failed"), url, rt)
            : o \in VariantOutcomes(v, url, rt)}

ScrapingManager_scrape_auto(call, url, rt) == ScrapeAutoFrom(1, call, url, rt)

NotAvailable(v) == Result(FALSE, "", v \o " service not available", "")

\* An explicit method: the named variant, once, whatever it returns.
DispatchMutant(call, v, url, rt) ==
    IF ~ServiceHeld(v, rt) THEN ScrapingManager_scrape_auto(call, url, rt)
    ELSE {Invoke(call, v, o) : o \in VariantOutcomes(v, url, rt)}
Dispatch(call, v, url, rt) ==
    IF ~ServiceHeld(v, rt) THEN {Call(NotAvailable(v), call.log, call.invoked)}
    ELSE {Invoke(call, v, o) : o \in VariantOutcomes(v, url, rt)}

\* ScrapingManager.scrape_url: the set of ways the call can end.
ScrapingManager_scrape_url(url, method, rt) ==
    LET call == Call(NoResult, <<"Manager: Processing with " \o method>>, <<>>)
    IN  IF method \in Variants THEN Dispatch(call, method, url, rt)
        ELSE IF method = "Auto" THEN ScrapingManager_scrape_auto(call, url, rt)
        ELSE {Call(Result(FALSE, "", "Unknown method", ""), call.log, call.invoked)}

(***************************************************************************)
(* DeepSeekService                                                         *)
(***************************************************************************)

\* The attribute names of the model: the first NHeaders extraction headers
\* of a category.
NHeaders == 2
SampleHeaders == <<"attributes__brand", "attributes__color", "attributes__model",
                   "attributes__weight">>
Headers == SubSeq(SampleHeaders, 1, NHeaders)
Range(seq) == {seq[i] : i \in 1..Len(seq)}

\* The evidence sources, in the order process_extraction enters them into
\* the sources map.
SourceKeys == <<"url1", "url2", "url3", "pdf">>

\* dict.get(key, default) on a dictionary modelled as a function.
Get(dict, key, default) == IF key \in DOMAIN dict THEN dict[key] ELSE default

\* {h: "" for h in headers}
AllEmpty(hs) == [h \in Range(hs) |-> ""]

\* What the model call can do: answer a JSON object with a value for every
\* attribute, for the first attribute only, or for none; raise; answer text
\* that is no JSON; answer JSON that is no object (a list).
ReplyKinds == {"object full", "object partial", "object empty",
               "exception", "unparsable", "not object"}

\* json.loads(result_text) of an answer that is a JSON object.
ReplyObject(kind, hs) ==
    CASE kind = "object full" -> [h \in Range(hs) |-> "Black"]
      [] kind = "object partial" -> [h \in {hs[1]} |-> "Black"]
      [] OTHER -> [h \in {} |-> ""]

\* `result[h] = extracted_data.get(h, "")` for every header.
FillMutant(extracted_data, hs) == extracted_data
Fill(extracted_data, hs) == [h \in Range(hs) |-> Get(extracted_data, h, "")]

\* DeepSeekService.extract_attributes: the dictionary it returns, and
\* whether it called the model. has_client is `self.client` being set.
extract_attributes(markdown_content, hs, has_client, reply) ==
    IF ~has_client THEN [values |-> AllEmpty(hs), api |-> FALSE]
    ELSE IF ~Truthy(markdown_content) THEN [values |-> AllEmpty(hs), api |-> FALSE]
    ELSE IF reply \in {"exception", "unparsable", "not object"}
    THEN [values |-> AllEmpty(hs), api |-> TRUE]
    ELSE [values |-> Fill(ReplyObject(reply, hs), hs), api |-> TRUE]

\* `content_data.get("success") and content_data.get("markdown")`
HasContentMutant(content_data) == content_data.success
HasContent(content_data) == content_data.success /\ Truthy(content_data.markdown)

\* One source of the sources map, as extract_from_multiple_sources reads it.
Source(k, s, m, e) == [key |-> k, success |-> s, markdown |-> m, error |-> e]
SourceKinds(k) == {Source(k, TRUE, TEXT, None), Source(k, TRUE, "", None),
                   Source(k, FALSE, "", "failed"), Source(k, FALSE, TEXT, "failed")}

\* `for h in headers: results[h][url_key] = extracted.get(h, "")`
WriteSource(matrix, hs, key, values) ==
    [h \in Range(hs) |-> (key :> Get(values, h, "")) @@ matrix[h]]

\* `for h in headers: results[h][url_key] = ""`
WriteEmptyMutant(matrix, hs, key) == matrix
WriteEmpty(matrix, hs, key) ==
    [h \in Range(hs) |-> (key :> "") @@ matrix[h]]

\* The loop's position after the source at position i of n was handled with
\* `reply`: extract_attributes catches what the model call raises, so the
\* loop goes on to the next source whatever the reply.
AfterSourceMutant(i, n, reply) ==
    IF reply \in {"exception", "unparsable", "not object"} THEN n + 1 ELSE i + 1
AfterSource(i, n, reply) == i + 1

(***************************************************************************)
(* State                                                                   *)
(***************************************************************************)

VARIABLES
    runtime,    \* the runtime the process runs in (a member of Runtimes)
    url,        \* the URL of the manager's last call
    method,     \* the method of the manager's last call
    last        \* how the manager's last call ended (a Call), or NoCall

VARIABLES
    has_client,         \* whether the DeepSeekService has a client (an API key)
    markdown_contents,  \* the sources map handed to the coordinator, in order
    headers,            \* the attribute list handed to the coordinator
    results,            \* the matrix under construction (attribute -> source -> value)
    next_source,        \* the position of the coordinator's loop in the sources map
    extractor_calls,    \* the calls of extract_attributes so far: source, reply, api
    epc                 \* "off", "loop" (in extract_from_multiple_sources), "returned"

VARIABLES
    DEEPSEEK_API_KEY,   \* whether the language-model API key is configured
    form_data,          \* the submitted form: url1, url2, url3, pdf_file
    rpc,                \* where the run is: "off", "start", "scrape", "extract",
                        \* "returned", "stored", "raised"
    url_index,          \* the index of the URL loop of process_extraction
    scraped_results,    \* the sources map of the run, in order of insertion
    pdf_content,        \* the text read from the uploaded document
    run_result,         \* what process_extraction returned
    extraction_results, \* st.session_state.extraction_results
    processing_done     \* st.session_state.processing_done

VARIABLES
    ui,                 \* which results table the session shows: "app", "component"
    current_results,    \* the matrix the results table was rendered with
    current_headers,    \* the attribute list the results table was rendered with
    final_values,       \* st.session_state.final_values
    text_final,         \* st.session_state["text_final_<idx>"], by idx + 1
    action              \* the operator's last action: the button, and for a
                        \* value button or a Final Output field its row and value

VARIABLES
    bs4_url,            \* the URL of the BS4Service.scrape_url call in progress
    bs4_attempt,        \* `attempt` of its retry loop
    bs4_last_error,     \* `last_error` of its retry loop
    bs4_io,             \* what the call did so far: its sleeps and its GETs, in order
    bs4_return,         \* what the call returned, NoResult while it runs
    service_call        \* the last call of each service that needs a credential

VARIABLES
    pw_url,             \* the URL of the PlaywrightService.scrape_url call in progress
    ppc,                \* where that call is: "off", "start", "navigate", "scroll",
                        \* "expand", "content", "returned"
    launches,           \* the browsers launched by the call
    navigation,         \* how page.goto ended: "none" (not tried), "ok", "failed"
    page,               \* the page in the browser: its content and how it behaves
    height_ahead,       \* page_height - current_position of _scroll_to_load_content,
                        \* in scroll steps
    locator,            \* the position of _expand_all_content in its locators
    clicks,             \* the clicks of _expand_all_content, by locator
    pw_return           \* what the call returned, NoResult while it runs

VARIABLES
    filter_input,       \* the argument of the filter under study
    filter_output       \* what the filter returned for it, NotRun before the call

scrapeVars == <<runtime, url, method, last>>
browserVars == <<pw_url, ppc, launches, navigation, page, height_ahead, locator,
                 clicks, pw_return>>
filterVars == <<filter_input, filter_output>>
serviceVars == <<bs4_url, bs4_attempt, bs4_last_error, bs4_io, bs4_return,
                 service_call>>
reconcileVars == <<ui, current_results, current_headers, final_values, text_final,
                   action>>
runVars == <<DEEPSEEK_API_KEY, form_data, rpc, url_index, scraped_results,
             pdf_content, run_result, extraction_results, processing_done>>
extractVars == <<has_client, markdown_contents, headers, results, next_source,
                 extractor_calls, epc>>
vars == <<scrapeVars, extractVars, runVars, reconcileVars, serviceVars, browserVars,
          filterVars>>

\* A session value that is None, and one that holds a dictionary.
NoneValue == [is_none |-> TRUE, dict |-> <<>>]
Stored(d) == [is_none |-> FALSE, dict |-> d]

\* init_session_state, with no run made.
RunOff ==
    /\ DEEPSEEK_API_KEY = FALSE
    /\ form_data = [url1 |-> "", url2 |-> "", url3 |-> "", pdf_file |-> "none"]
    /\ rpc = "off"
    /\ url_index = 0
    /\ scraped_results = <<>>
    /\ pdf_content = ""
    /\ run_result = NoneValue
    /\ extraction_results = NoneValue
    /\ processing_done = FALSE

NoMatrix == <<>>
ExtractOff ==
    /\ has_client = FALSE
    /\ markdown_contents = <<>>
    /\ headers = <<>>
    /\ results = NoMatrix
    /\ next_source = 0
    /\ extractor_calls = <<>>
    /\ epc = "off"

NoCall == Call(NoResult, <<>>, <<>>)

\* No results table rendered: `st.session_state.final_values = {}`.
ReconcileOff ==
    /\ ui = "app"
    /\ current_results = <<>>
    /\ current_headers = <<>>
    /\ final_values = <<>>
    /\ text_final = <<>>
    /\ action = "none"

\* No service called on its own.
NoServiceCall ==
    [called |-> FALSE, configured |-> FALSE, input |-> "", responses |-> <<>>,
     calls |-> 0, result |-> NoResult, values |-> <<>>]
NoServiceCalls == [Firecrawl |-> NoServiceCall, DeepSeek |-> NoServiceCall]
ServiceOff ==
    /\ bs4_url = ""
    /\ bs4_attempt = 0
    /\ bs4_last_error = None
    /\ bs4_io = <<>>
    /\ bs4_return = NoResult
    /\ service_call = NoServiceCalls

\* No browser session, and no filter under study.
NoPage == [content |-> "blank", growth |-> "static", matches |-> 0]
BrowserOff ==
    /\ pw_url = ""
    /\ ppc = "off"
    /\ launches = 0
    /\ navigation = "none"
    /\ page = NoPage
    /\ height_ahead = 0
    /\ locator = 0
    /\ clicks = <<>>
    /\ pw_return = NoResult
NotRun == [ran |-> FALSE, value |-> <<>>]
Ran(v) == [ran |-> TRUE, value |-> v]
FilterOff ==
    /\ filter_input = <<>>
    /\ filter_output = NotRun

(***************************************************************************)
(* The manager called on its own                                           *)
(***************************************************************************)

InitScrape ==
    /\ ServiceOff
    /\ BrowserOff
    /\ FilterOff
    /\ runtime \in Runtimes
    /\ url \in Urls
    /\ method \in Methods
    /\ last = NoCall
    /\ ExtractOff
    /\ RunOff
    /\ ReconcileOff

\* A caller hands the manager a URL and a method.
ManagerCall ==
    /\ last # NoCall
    /\ url' \in Urls
    /\ method' \in Methods
    /\ last' = NoCall
    /\ UNCHANGED <<browserVars, filterVars, serviceVars, reconcileVars, runtime, extractVars, runVars>>

\* ScrapingManager.scrape_url, from its start to its return (or to the
\* exception that leaves it).
ManagerScrapeUrl ==
    /\ last = NoCall
    /\ last' \in ScrapingManager_scrape_url(url, method, runtime)
    /\ UNCHANGED <<browserVars, filterVars, serviceVars, reconcileVars, runtime, url, method, extractVars, runVars>>

NextScrape == ManagerCall \/ ManagerScrapeUrl

SpecScrape == InitScrape /\ [][NextScrape]_vars

(***************************************************************************)
(* The coordinator called on its own                                       *)
(***************************************************************************)

ScrapeOff ==
    /\ runtime = [crawl4ai_service |-> FALSE, playwright_service |-> FALSE,
                  CRAWL4AI_AVAILABLE |-> FALSE, sync_playwright |-> FALSE,
                  FIRECRAWL_API_KEY |-> FALSE]
    /\ url = ""
    /\ method = "Auto"
    /\ last = NoCall

\* The sources maps of the model: url1, url2, url3 and, with a document,
\* pdf, each of any kind.
SourceMaps ==
    UNION {[1..n -> UNION {SourceKinds(SourceKeys[i]) : i \in 1..n}] : n \in {3, 4}}
WellKeyed(m) == \A i \in 1..Len(m) : m[i].key = SourceKeys[i]

\* extract_from_multiple_sources entered: `results = {h: {} for h in headers}`.
EnterExtraction(sources, hs, client) ==
    /\ has_client' = client
    /\ markdown_contents' = sources
    /\ headers' = hs
    /\ results' = [h \in Range(hs) |-> <<>>]
    /\ next_source' = 1
    /\ extractor_calls' = <<>>
    /\ epc' = "loop"

InitExtract ==
    /\ ServiceOff
    /\ BrowserOff
    /\ FilterOff
    /\ ScrapeOff
    /\ RunOff
    /\ ReconcileOff
    /\ has_client \in BOOLEAN
    /\ markdown_contents \in {m \in SourceMaps : WellKeyed(m)}
    /\ headers = Headers
    /\ results = [h \in Range(Headers) |-> <<>>]
    /\ next_source = 1
    /\ extractor_calls = <<>>
    /\ epc = "loop"

\* One turn of the loop for a source with content: extract_attributes is
\* called and its values are written under the source's key.
ProcessSource ==
    /\ epc = "loop"
    /\ next_source <= Len(markdown_contents)
    /\ LET content_data == markdown_contents[next_source]
       IN  /\ HasContent(content_data)
           /\ \E reply \in ReplyKinds :
                LET extracted == extract_attributes(content_data.markdown, headers,
                                                    has_client, reply)
                IN  /\ results' = WriteSource(results, headers, content_data.key,
                                               extracted.values)
                    /\ extractor_calls' =
                          Append(extractor_calls,
                                 [key |-> content_data.key,
                                  reply |-> IF extracted.api THEN reply ELSE "no call",
                                  api |-> extracted.api])
                    /\ next_source' = AfterSource(next_source, Len(markdown_contents),
                                                  reply)
    /\ UNCHANGED <<browserVars, filterVars, serviceVars, reconcileVars, scrapeVars, runVars, has_client, markdown_contents, headers, epc>>

\* One turn of the loop for a source without content: the empty string for
\* every attribute, and no call.
SkipSource ==
    /\ epc = "loop"
    /\ next_source <= Len(markdown_contents)
    /\ LET content_data == markdown_contents[next_source]
       IN  /\ ~HasContent(content_data)
           /\ results' = WriteEmpty(results, headers, content_data.key)
    /\ next_source' = AfterSource(next_source, Len(markdown_contents), "no call")
    /\ UNCHANGED <<browserVars, filterVars, serviceVars, reconcileVars, scrapeVars, runVars, has_client, markdown_contents, headers,
                   extractor_calls, epc>>

\* The loop is over: `return results`.
ReturnMatrix ==
    /\ epc = "loop"
    /\ next_source > Len(markdown_contents)
    /\ epc' = "returned"
    /\ UNCHANGED <<browserVars, filterVars, serviceVars, reconcileVars, scrapeVars, runVars, has_client, markdown_contents, headers,
                   results, next_source, extractor_calls>>

NextExtract == ProcessSource \/ SkipSource \/ ReturnMatrix

SpecExtract == InitExtract /\ [][NextExtract]_vars

(***************************************************************************)
(* One pipeline run: main and process_extraction                           *)
(***************************************************************************)

\* The uploaded document: none, one with text, one whose pages give no
\* text, one that PyPDF2 cannot read (or PyPDF2 is missing).
PdfFiles == {"none", "text", "no text", "unreadable"}

\* render_input_form's check besides SKU and base code: a URL or a document.
FormValid(f) ==
    \/ Truthy(f.url1) \/ Truthy(f.url2) \/ Truthy(f.url3)
    \/ f.pdf_file # "none"

Forms == {f \in [url1 : Urls, url2 : Urls, url3 : Urls, pdf_file : PdfFiles] :
             FormValid(f)}

\* The runtime of the runs of the model: every service and package there.
RunRuntime == [crawl4ai_service |-> TRUE, playwright_service |-> TRUE,
               CRAWL4AI_AVAILABLE |-> TRUE, sync_playwright |-> TRUE,
               FIRECRAWL_API_KEY |-> TRUE]

\* The submitted URLs, in the order of the loop.
FormUrls(f) == <<f.url1, f.url2, f.url3>>

\* The options of the form's method select boxes.
FormMethods == {"Auto", "BS4", "Crawl4AI", "Playwright", "Firecrawl"}

\* The text of the document as lines 490-506 leave it in pdf_content.
PdfText(pdf_file) == IF pdf_file = "text" THEN TEXT ELSE ""

\* How the manager's call for a URL of the form can end, the method being
\* any of the form's; the calls of the runs' runtime for a URL that is
\* there are the same in every run.
ManagerCalls(u, rt) ==
    UNION {ScrapingManager_scrape_url(u, m, rt) : m \in FormMethods}
ManagerCallsGood == ManagerCalls(GoodUrl, RunRuntime)
ManagerCallsFor(u, rt) ==
    IF u = GoodUrl /\ rt = RunRuntime THEN ManagerCallsGood ELSE ManagerCalls(u, rt)

\* The errors of the model's results, up to what the run reads of them.
ErrorClass(e) == IF e \in {None, "Empty URL"} THEN e ELSE "failed"

InitRun ==
    /\ ServiceOff
    /\ BrowserOff
    /\ FilterOff
    /\ runtime = RunRuntime
    /\ url = ""
    /\ method = "Auto"
    /\ last = NoCall
    /\ ExtractOff
    /\ ReconcileOff
    /\ DEEPSEEK_API_KEY \in BOOLEAN
    /\ form_data \in Forms
    /\ rpc = "start"
    /\ url_index = 0
    /\ scraped_results = <<>>
    /\ pdf_content = ""
    /\ run_result = NoneValue
    /\ extraction_results = NoneValue
    /\ processing_done = FALSE

\* `return {}` when the language-model key is missing.
MissingKeyReturns == ~DEEPSEEK_API_KEY

\* process_extraction up to the URL loop: the document is read and the
\* language-model key is checked.
StartRun ==
    /\ rpc = "start"
    /\ pdf_content' = PdfText(form_data.pdf_file)
    /\ IF MissingKeyReturns
       THEN /\ run_result' = Stored(<<>>)
            /\ rpc' = "returned"
            /\ UNCHANGED url_index
       ELSE /\ url_index' = 1
            /\ rpc' = "scrape"
            /\ UNCHANGED run_result
    /\ UNCHANGED <<browserVars, filterVars, serviceVars, reconcileVars, scrapeVars, extractVars, DEEPSEEK_API_KEY, form_data,
                   scraped_results, extraction_results, processing_done>>

\* One turn of the URL loop for a URL that is there: the manager is called
\* with the URL stripped and the method of the form; what it raises leaves
\* process_extraction.
ScrapeSource ==
    /\ rpc = "scrape"
    /\ url_index <= 3
    /\ LET u == FormUrls(form_data)[url_index]
       IN  /\ Truthy(u) /\ Truthy(Strip(u))
           /\ \E c \in ManagerCallsFor(Strip(u), runtime) :
                    IF c.result.exc # None
                    THEN /\ rpc' = "raised"
                         /\ UNCHANGED <<scraped_results, url_index>>
                    ELSE /\ scraped_results' =
                              Append(scraped_results,
                                     Source(SourceKeys[url_index], c.result.success,
                                            c.result.markdown,
                                            ErrorClass(c.result.error)))
                         /\ url_index' = url_index + 1
                         /\ UNCHANGED rpc
    /\ UNCHANGED <<browserVars, filterVars, serviceVars, reconcileVars, scrapeVars, extractVars, DEEPSEEK_API_KEY, form_data, pdf_content,
                   run_result, extraction_results, processing_done>>

\* One turn of the URL loop for an empty or blank URL.
SkipEmptyUrl ==
    /\ rpc = "scrape"
    /\ url_index <= 3
    /\ LET u == FormUrls(form_data)[url_index]
       IN  /\ ~(Truthy(u) /\ Truthy(Strip(u)))
           /\ scraped_results' =
                 Append(scraped_results,
                        Source(SourceKeys[url_index], FALSE, "", "Empty URL"))
    /\ url_index' = url_index + 1
    /\ UNCHANGED <<browserVars, filterVars, serviceVars, reconcileVars, scrapeVars, extractVars, DEEPSEEK_API_KEY, form_data, rpc,
                   pdf_content, run_result, extraction_results, processing_done>>

\* `if pdf_content: scraped_results["pdf"] = {...}`: the document is the
\* last key inserted.
AddDocumentMutant(scraped, pdf) ==
    IF Truthy(pdf) THEN <<Source("pdf", TRUE, pdf, None)>> \o scraped ELSE scraped
AddDocument(scraped, pdf) ==
    IF Truthy(pdf) THEN Append(scraped, Source("pdf", TRUE, pdf, None)) ELSE scraped

\* After the URL loop: the document joins the sources when it gave text,
\* and the coordinator is entered with the category's extraction headers.
BeginExtraction ==
    /\ rpc = "scrape"
    /\ url_index > 3
    /\ LET sources == AddDocument(scraped_results, pdf_content)
       IN  /\ scraped_results' = sources
           /\ EnterExtraction(sources, Headers, DEEPSEEK_API_KEY)
    /\ rpc' = "extract"
    /\ UNCHANGED <<browserVars, filterVars, serviceVars, reconcileVars, scrapeVars, DEEPSEEK_API_KEY, form_data, url_index, pdf_content,
                   run_result, extraction_results, processing_done>>

\* `return extraction_results` of process_extraction.
ReturnRun ==
    /\ rpc = "extract"
    /\ epc = "returned"
    /\ run_result' = Stored(results)
    /\ rpc' = "returned"
    /\ UNCHANGED <<browserVars, filterVars, serviceVars, reconcileVars, scrapeVars, extractVars, DEEPSEEK_API_KEY, form_data, url_index,
                   scraped_results, pdf_content, extraction_results, processing_done>>

\* main stores what process_extraction returned in the session.
StoreResults ==
    /\ rpc = "returned"
    /\ extraction_results' = run_result
    /\ processing_done' = TRUE
    /\ rpc' = "stored"
    /\ UNCHANGED <<browserVars, filterVars, serviceVars, reconcileVars, scrapeVars, extractVars, DEEPSEEK_API_KEY, form_data, url_index,
                   scraped_results, pdf_content, run_result>>

NextRun ==
    \/ StartRun \/ ScrapeSource \/ SkipEmptyUrl \/ BeginExtraction
    \/ ProcessSource \/ SkipSource \/ ReturnMatrix
    \/ ReturnRun \/ StoreResults

SpecRun == InitRun /\ [][NextRun]_vars

\* The Results tab shows the matrix when the session holds a non-empty one
\* (`if st.session_state.get("extraction_results")`), else "No Results Yet".
MatrixShown == ~extraction_results.is_none /\ extraction_results.dict # <<>>

(***************************************************************************)
(* Reconciliation: the results table and its quick actions                 *)
(***************************************************************************)

\* The values the model's extractor leaves in the matrix for each source:
\* the empty string, a value, and for url1 also a blank one.
SampleValues == [url1 |-> <<"", " ", "Red">>, url2 |-> <<"", "Black">>,
                 url3 |-> <<"", "White">>, pdf |-> <<"", "Silver">>]

\* The number of rows over the first nkeys source keys, and the n-th of them.
RECURSIVE NRows(_)
NRows(nkeys) ==
    IF nkeys = 0 THEN 1
    ELSE NRows(nkeys - 1) * Len(SampleValues[SourceKeys[nkeys]])
Row(n, nkeys) ==
    [k \in {SourceKeys[i] : i \in 1..nkeys} |->
        LET i == CHOOSE j \in 1..nkeys : SourceKeys[j] = k
        IN  SampleValues[k][((n \div NRows(i - 1)) % Len(SampleValues[k])) + 1]]

\* The matrices of the model: every row in turn for the first attribute and
\* the rows seven further on for the attributes after it; the rows of a
\* matrix have the same source keys, url1..url3 and, with a document, pdf.
Matrix(n, nkeys) ==
    [h \in Range(Headers) |->
        LET i == CHOOSE j \in 1..Len(Headers) : Headers[j] = h
        IN  Row((n + 7 * (i - 1)) % NRows(nkeys), nkeys)]
Matrices == UNION {{Matrix(n, nkeys) : n \in 0..(NRows(nkeys) - 1)} : nkeys \in {3, 4}}

\* str(val) of a matrix value: the extractor is asked for strings, and the
\* values of the model are strings.
Str(val) == val

\* `val and str(val).strip()`
NonBlank(val) == Truthy(val) /\ Truthy(Strip(Str(val)))

\* The first of a set of positions (where a loop with `break` stops).
First(S) == CHOOSE i \in S : \A j \in S : i <= j

\* The sources the two Auto-fill Best loops scan, in order, and the
\* positions whose value passes the loop's test.
AppScanOrder == <<"url1", "url2", "url3", "pdf">>
AppHits(url_values) ==
    {i \in 1..Len(AppScanOrder) : NonBlank(Get(url_values, AppScanOrder[i], ""))}
ComponentScanOrder == <<"url1", "url2", "url3">>
ComponentHits(url_values) ==
    {i \in 1..Len(ComponentScanOrder) :
        Truthy(Get(url_values, ComponentScanOrder[i], ""))}

\* dict[key] = value
Put(dict, key, value) == (key :> value) @@ dict

\* app.py, Auto-fill Best: what the loop leaves in final_values and in the
\* text_final widgets.
AppBestValue(url_values) ==
    Str(url_values[AppScanOrder[First(AppHits(url_values))]])
AppAutoFillBestMutant(matrix, hs, fv) ==
    LET filled == {h \in Range(hs) : AppHits(Get(matrix, h, <<>>)) # {}}
    IN  [h \in (DOMAIN fv) \cup filled |->
            IF h \in filled
            THEN Get(fv, h, "") \o AppBestValue(Get(matrix, h, <<>>))
            ELSE fv[h]]
AppAutoFillBest(matrix, hs, fv) ==
    LET filled == {h \in Range(hs) :
                      AppHits(Get(matrix, h, <<>>)) # {}}
    IN  [h \in (DOMAIN fv) \cup filled |->
            IF h \in filled THEN AppBestValue(Get(matrix, h, <<>>)) ELSE fv[h]]
AppAutoFillBestText(matrix, hs, tf) ==
    LET filled == {i \in 1..Len(hs) :
                      AppHits(Get(matrix, hs[i], <<>>)) # {}}
    IN  [i \in (DOMAIN tf) \cup filled |->
            IF i \in filled THEN AppBestValue(Get(matrix, hs[i], <<>>)) ELSE tf[i]]

\* components/results_table.py, _auto_fill_best.
ComponentBestValue(url_values) ==
    url_values[ComponentScanOrder[First(ComponentHits(url_values))]]
ComponentAutoFillBestMutant(matrix, hs, fv) ==
    [h \in (DOMAIN fv) \cup Range(hs) |->
        IF h \in Range(hs)
        THEN IF ComponentHits(Get(matrix, h, <<>>)) # {}
             THEN ComponentBestValue(Get(matrix, h, <<>>)) ELSE ""
        ELSE fv[h]]
ComponentAutoFillBest(matrix, hs, fv) ==
    LET filled == {h \in Range(hs) :
                      ComponentHits(Get(matrix, h, <<>>)) # {}}
    IN  [h \in (DOMAIN fv) \cup filled |->
            IF h \in filled THEN ComponentBestValue(Get(matrix, h, <<>>)) ELSE fv[h]]

\* app.py, Use URL n: the value of one source where it is not blank.
AppUseUrlMutant(matrix, hs, fv, key) ==
    [h \in (DOMAIN fv) \cup Range(hs) |->
        IF h \in Range(hs) THEN Get(Get(matrix, h, <<>>), key, "") ELSE fv[h]]
AppUseUrl(matrix, hs, fv, key) ==
    LET filled == {h \in Range(hs) : NonBlank(Get(Get(matrix, h, <<>>), key, ""))}
    IN  [h \in (DOMAIN fv) \cup filled |->
            IF h \in filled THEN Str(matrix[h][key]) ELSE fv[h]]
AppUseUrlText(matrix, hs, tf, key) ==
    LET filled == {i \in 1..Len(hs) :
                      NonBlank(Get(Get(matrix, hs[i], <<>>), key, ""))}
    IN  [i \in (DOMAIN tf) \cup filled |->
            IF i \in filled THEN Str(matrix[hs[i]][key]) ELSE tf[i]]

\* components/results_table.py, Use All URL1.
ComponentUseAllUrl1(matrix, hs, fv) ==
    LET filled == {h \in Range(hs) : Truthy(Get(Get(matrix, h, <<>>), "url1", ""))}
    IN  [h \in (DOMAIN fv) \cup filled |->
            IF h \in filled THEN matrix[h]["url1"] ELSE fv[h]]

\* Clear All: `st.session_state.final_values = {}`.
ClearedMutant(fv) == [h \in DOMAIN fv |-> ""]
Cleared(fv) == <<>>

\* `str(url_values.get(key, "") or "")`: the text of a value button.
ButtonValue(matrix, h, key) ==
    LET val == Get(Get(matrix, h, <<>>), key, "")
    IN  IF Truthy(val) THEN Str(val) ELSE ""

\* The sources that have a column of value buttons.
ButtonKeys == {"url1", "url2", "url3"}

\* What the operator types into a Final Output field.
EditValues == {"", "Manual"}

\* The results table rendered for the first time with the matrix of a run:
\* no final value yet, and (app.py) every text_final widget set to "".
InitReconcile ==
    /\ ServiceOff
    /\ BrowserOff
    /\ FilterOff
    /\ ScrapeOff
    /\ ExtractOff
    /\ DEEPSEEK_API_KEY = TRUE
    /\ form_data = [url1 |-> GoodUrl, url2 |-> "", url3 |-> "", pdf_file |-> "none"]
    /\ rpc = "stored"
    /\ url_index = 0
    /\ scraped_results = <<>>
    /\ pdf_content = ""
    /\ current_results \in Matrices
    /\ run_result = Stored(current_results)
    /\ extraction_results = Stored(current_results)
    /\ processing_done = TRUE
    /\ ui \in {"app", "component"}
    /\ current_headers = Headers
    /\ final_values = <<>>
    /\ text_final = IF ui = "app" THEN [i \in 1..Len(Headers) |-> ""] ELSE <<>>
    /\ action = "none"

\* app.py: the Auto-fill Best button.
AutoFillBest ==
    /\ ui = "app"
    /\ final_values' = AppAutoFillBest(current_results, current_headers, final_values)
    /\ text_final' = AppAutoFillBestText(current_results, current_headers, text_final)
    /\ action' = "autofill_best"
    /\ UNCHANGED <<browserVars, filterVars, serviceVars, scrapeVars, extractVars, runVars, ui, current_results,
                   current_headers>>

\* app.py: the Use URL 1, Use URL 2 and Use URL 3 buttons.
UseUrl ==
    /\ ui = "app"
    /\ \E key \in ButtonKeys :
          /\ final_values' = AppUseUrl(current_results, current_headers,
                                       final_values, key)
          /\ text_final' = AppUseUrlText(current_results, current_headers,
                                         text_final, key)
          /\ action' = "use_" \o key
    /\ UNCHANGED <<browserVars, filterVars, serviceVars, scrapeVars, extractVars, runVars, ui, current_results,
                   current_headers>>

\* app.py: the Clear All button.
ClearAll ==
    /\ ui = "app"
    /\ final_values' = Cleared(final_values)
    /\ text_final' = [i \in (DOMAIN text_final) \cap (1..Len(current_headers)) |-> ""]
                        @@ text_final
    /\ action' = "clear_all"
    /\ UNCHANGED <<browserVars, filterVars, serviceVars, scrapeVars, extractVars, runVars, ui, current_results,
                   current_headers>>

\* app.py: a value button of a row.
ClickValue ==
    /\ ui = "app"
    /\ \E i \in 1..Len(current_headers) : \E key \in ButtonKeys :
          LET val == ButtonValue(current_results, current_headers[i], key)
          IN  /\ Truthy(val)
              /\ final_values' = Put(final_values, current_headers[i], val)
              /\ text_final' = Put(text_final, i, val)
              /\ action' = "click " \o key \o " " \o current_headers[i]
    /\ UNCHANGED <<browserVars, filterVars, serviceVars, scrapeVars, extractVars, runVars, ui, current_results,
                   current_headers>>

\* app.py: the operator changes the text of a Final Output field; on_change
\* copies the widget's text to final_values.
EditFinal ==
    /\ ui = "app"
    /\ \E i \in 1..Len(current_headers) : \E typed \in EditValues :
          /\ typed # Get(text_final, i, "")
          /\ text_final' = Put(text_final, i, typed)
          /\ final_values' = Put(final_values, current_headers[i], typed)
          /\ action' = "edit " \o current_headers[i] \o " " \o typed
    /\ UNCHANGED <<browserVars, filterVars, serviceVars, scrapeVars, extractVars, runVars, ui, current_results,
                   current_headers>>

\* components/results_table.py: the Auto-fill Best button.
ComponentAutoFill ==
    /\ ui = "component"
    /\ final_values' = ComponentAutoFillBest(current_results, current_headers,
                                             final_values)
    /\ action' = "autofill_best"
    /\ UNCHANGED <<browserVars, filterVars, serviceVars, scrapeVars, extractVars, runVars, ui, current_results,
                   current_headers, text_final>>

\* components/results_table.py: the Use All URL1 button.
ComponentUseUrl1 ==
    /\ ui = "component"
    /\ final_values' = ComponentUseAllUrl1(current_results, current_headers,
                                           final_values)
    /\ action' = "use_url1"
    /\ UNCHANGED <<browserVars, filterVars, serviceVars, scrapeVars, extractVars, runVars, ui, current_results,
                   current_headers, text_final>>

\* components/results_table.py: the Clear All button.
ComponentClearAll ==
    /\ ui = "component"
    /\ final_values' = Cleared(final_values)
    /\ action' = "clear_all"
    /\ UNCHANGED <<browserVars, filterVars, serviceVars, scrapeVars, extractVars, runVars, ui, current_results,
                   current_headers, text_final>>

\* components/results_table.py: a value button of a row.
ComponentClickValue ==
    /\ ui = "component"
    /\ \E h \in Range(current_headers) : \E key \in ButtonKeys :
          LET val == Get(Get(current_results, h, <<>>), key, "")
          IN  /\ Truthy(val)
              /\ final_values' = Put(final_values, h, val)
              /\ action' = "click " \o key \o " " \o h
    /\ UNCHANGED <<browserVars, filterVars, serviceVars, scrapeVars, extractVars, runVars, ui, current_results,
                   current_headers, text_final>>

\* components/results_table.py: the text of a Final Output field differs
\* from the final value it was rendered with.
ComponentEditFinal ==
    /\ ui = "component"
    /\ \E h \in Range(current_headers) : \E new_final \in EditValues :
          /\ new_final # Get(final_values, h, "")
          /\ final_values' = Put(final_values, h, new_final)
          /\ action' = "edit " \o h \o " " \o new_final
    /\ UNCHANGED <<browserVars, filterVars, serviceVars, scrapeVars, extractVars, runVars, ui, current_results,
                   current_headers, text_final>>

NextReconcile ==
    \/ AutoFillBest \/ UseUrl \/ ClearAll \/ ClickValue \/ EditFinal
    \/ ComponentAutoFill \/ ComponentUseUrl1 \/ ComponentClearAll
    \/ ComponentClickValue \/ ComponentEditFinal

SpecReconcile == InitReconcile /\ [][NextReconcile]_vars

(***************************************************************************)
(* A session: runs and operator actions in turn                            *)
(***************************************************************************)

\* `if key not in st.session_state: st.session_state[key] = default`
SessionDefaultMutant(present, current, default) == default
SessionDefault(present, current, default) == IF present THEN current ELSE default

\* The forms the operator submits in a session: one URL, alone or with a
\* document that gives no text.
SessionForms == {f \in Forms : f.url1 = GoodUrl /\ f.url2 = "" /\ f.url3 = ""
                                /\ f.pdf_file \in {"none", "no text"}}

\* The first script run of a session: init_session_state and the empty form.
InitSession ==
    /\ ServiceOff
    /\ BrowserOff
    /\ FilterOff
    /\ runtime = RunRuntime
    /\ url = ""
    /\ method = "Auto"
    /\ last = NoCall
    /\ ExtractOff
    /\ DEEPSEEK_API_KEY \in BOOLEAN
    /\ form_data = [url1 |-> "", url2 |-> "", url3 |-> "", pdf_file |-> "none"]
    /\ rpc = "off"
    /\ url_index = 0
    /\ scraped_results = <<>>
    /\ pdf_content = ""
    /\ run_result = NoneValue
    /\ extraction_results = NoneValue
    /\ processing_done = FALSE
    /\ ReconcileOff

\* No script run is under way: the page waits for the operator.
Idle == rpc \in {"off", "shown", "raised"}

\* The results table is on the page.
TableShown == rpc = "shown" /\ MatrixShown

\* The operator submits the form: the script runs from the top
\* (init_session_state), stores the form and enters process_extraction.
SubmitForm ==
    /\ Idle
    /\ form_data' \in SessionForms
    /\ rpc' = "start"
    /\ url_index' = 0
    /\ scraped_results' = <<>>
    /\ pdf_content' = ""
    /\ run_result' = NoneValue
    /\ has_client' = FALSE
    /\ markdown_contents' = <<>>
    /\ headers' = <<>>
    /\ results' = NoMatrix
    /\ next_source' = 0
    /\ extractor_calls' = <<>>
    /\ epc' = "off"
    /\ extraction_results' = SessionDefault(TRUE, extraction_results, NoneValue)
    /\ processing_done' = SessionDefault(TRUE, processing_done, FALSE)
    /\ final_values' = SessionDefault(TRUE, final_values, <<>>)
    /\ action' = "submit"
    /\ UNCHANGED <<browserVars, filterVars, serviceVars, scrapeVars, DEEPSEEK_API_KEY, ui, current_results,
                   current_headers, text_final>>

\* st.rerun() after the run: the script runs from the top, the locals of the
\* run are gone, and the Results tab renders the table when the session
\* holds a matrix, giving every text_final widget without a value the
\* attribute's final value.
ShowResults ==
    /\ rpc = "stored"
    /\ rpc' = "shown"
    /\ url_index' = 0
    /\ scraped_results' = <<>>
    /\ pdf_content' = ""
    /\ run_result' = NoneValue
    /\ has_client' = FALSE
    /\ markdown_contents' = <<>>
    /\ headers' = <<>>
    /\ results' = NoMatrix
    /\ next_source' = 0
    /\ extractor_calls' = <<>>
    /\ epc' = "off"
    /\ final_values' = SessionDefault(TRUE, final_values, <<>>)
    /\ IF MatrixShown
       THEN /\ current_results' = extraction_results.dict
            /\ current_headers' = Headers
            /\ text_final' =
                  [i \in 1..Len(Headers) |->
                      IF i \in DOMAIN text_final THEN text_final[i]
                      ELSE Get(final_values, Headers[i], "")]
       ELSE UNCHANGED <<current_results, current_headers, text_final>>
    /\ UNCHANGED <<browserVars, filterVars, serviceVars, scrapeVars, DEEPSEEK_API_KEY, form_data, extraction_results,
                   processing_done, ui, action>>

\* The quick actions, value buttons and Final Output fields of app.py's
\* table, there when the table is on the page.
SessionAutoFillBest == TableShown /\ AutoFillBest
SessionUseUrl == TableShown /\ UseUrl
SessionClearAll == TableShown /\ ClearAll
SessionClickValue == TableShown /\ ClickValue
SessionEditFinal == TableShown /\ EditFinal

\* The sidebar's Reset Session button: every key of the session is deleted
\* and the script runs from the top (init_session_state).
ResetSession ==
    /\ Idle
    /\ rpc' = "off"
    /\ form_data' = [url1 |-> "", url2 |-> "", url3 |-> "", pdf_file |-> "none"]
    /\ extraction_results' = SessionDefault(FALSE, extraction_results, NoneValue)
    /\ processing_done' = SessionDefault(FALSE, processing_done, FALSE)
    /\ final_values' = SessionDefault(FALSE, final_values, <<>>)
    /\ text_final' = <<>>
    /\ current_results' = <<>>
    /\ current_headers' = <<>>
    /\ action' = "reset"
    /\ UNCHANGED <<browserVars, filterVars, serviceVars, scrapeVars, extractVars, DEEPSEEK_API_KEY, url_index,
                   scraped_results, pdf_content, run_result, ui>>

NextSession ==
    \/ SubmitForm
    \/ StartRun \/ ScrapeSource \/ SkipEmptyUrl \/ BeginExtraction
    \/ ProcessSource \/ SkipSource \/ ReturnMatrix
    \/ ReturnRun \/ StoreResults \/ ShowResults
    \/ SessionAutoFillBest \/ SessionUseUrl \/ SessionClearAll
    \/ SessionClickValue \/ SessionEditFinal
    \/ ResetSession

SpecSession == InitSession /\ [][NextSession]_vars

(***************************************************************************)
(* From the coordinator to the table: a run from its extraction step on    *)
(***************************************************************************)

\* What a run reads of the results the manager can return for a URL that is
\* there, and the sources map entries made of them and for a URL that is not.
RunResultClasses ==
    {[success |-> c.result.success, markdown |-> c.result.markdown,
      error |-> ErrorClass(c.result.error)] :
        c \in {d \in ManagerCallsGood : d.result.exc = None}}
RunSources(key) ==
    {Source(key, r.success, r.markdown, r.error) : r \in RunResultClasses}
EmptyUrlSource(key) == Source(key, FALSE, "", "Empty URL")

\* The forms of these runs, and the sources maps a run of a form can have
\* when it reaches the extraction step.
RoundTripForms == {f \in Forms : /\ \A i \in 1..3 : FormUrls(f)[i] \in {"", GoodUrl}
                                  /\ f.pdf_file \in {"none", "text"}}
UrlSources(f, i) ==
    IF Truthy(FormUrls(f)[i]) THEN RunSources(SourceKeys[i])
    ELSE {EmptyUrlSource(SourceKeys[i])}
SourcesOf(f) ==
    LET urls == {<<s1, s2, s3>> : s1 \in UrlSources(f, 1), s2 \in UrlSources(f, 2),
                                  s3 \in UrlSources(f, 3)}
    IN  IF Truthy(PdfText(f.pdf_file))
        THEN {Append(m, Source("pdf", TRUE, PdfText(f.pdf_file), None)) : m \in urls}
        ELSE urls

\* A run right after BeginExtraction: the URL loop is over and the
\* coordinator is entered with the sources of the run and the extraction
\* headers hs of the selected category.
ExtractionStep(forms, hs) ==
    /\ ServiceOff
    /\ BrowserOff
    /\ FilterOff
    /\ runtime = RunRuntime
    /\ url = ""
    /\ method = "Auto"
    /\ last = NoCall
    /\ DEEPSEEK_API_KEY = TRUE
    /\ form_data \in forms
    /\ rpc = "extract"
    /\ url_index = 4
    /\ scraped_results \in SourcesOf(form_data)
    /\ pdf_content = PdfText(form_data.pdf_file)
    /\ run_result = NoneValue
    /\ extraction_results = NoneValue
    /\ processing_done = FALSE
    /\ has_client = DEEPSEEK_API_KEY
    /\ markdown_contents = scraped_results
    /\ headers = hs
    /\ results = [h \in Range(hs) |-> <<>>]
    /\ next_source = 1
    /\ extractor_calls = <<>>
    /\ epc = "loop"
    /\ ReconcileOff

InitRoundTrip == ExtractionStep(RoundTripForms, Headers)

NextRoundTrip ==
    \/ ProcessSource \/ SkipSource \/ ReturnMatrix
    \/ ReturnRun \/ StoreResults \/ ShowResults
    \/ SessionAutoFillBest

SpecRoundTrip == InitRoundTrip /\ [][NextRoundTrip]_vars

(***************************************************************************)
(* The category TV: its headers, a run and the exported row                *)
(***************************************************************************)

\* CATEGORIES["TV"]["headers"]
TV ==
    <<
    "sku", "base_code", "attributes__lulu_ean", "attributes__keywords",
    "attributes__shipping_weight", "attributes__brand", "sap des", "mm43",
    "link", "Status", "name", "attributes__product_title",
    "attributes__bullet_point_1", "attributes__bullet_point_2",
    "attributes__bullet_point_3", "attributes__bullet_point_4",
    "attributes__bullet_point_5", "attributes__bullet_point_6",
    "attributes__product_description", "attributes__lulu_product_type",
    "attributes__model", "attributes__weight",
    "attributes__product_dimensions", "attributes__package_dimensions",
    "attributes__os", "attributes__os_version",
    "attributes__internal _storage", "attributes__display_type",
    "attributes__display_feature", "attributes__display_resolution",
    "attributes__bluetooth", "attributes__screen_size",
    "attributes__refresh_rate", "attributes__hdmi", "attributes__usb",
    "attributes__ports", "attributes__features",
    "attributes__no_of_channels", "attributes__color",
    "attributes__supported_video_formats", "attributes__other_information",
    "attributes__audio", "attributes__model_year", "attributes__wifi",
    "attributes__voltage", "attributes__frequency_range",
    "attributes__power_consumption", "attributes__cord_length",
    "attributes__processor", "attributes__processor_version",
    "attributes__mounting_type"
    >>

\* get_extraction_headers: the headers without those the operator supplies.
exclude_set == {"sku", "base_code", "attributes__lulu_ean", "attributes__shipping_weight"}
get_extraction_headersMutant(all_headers) ==
    SelectSeq(all_headers,
              LAMBDA h : h \notin {"sku", "base_code", "attributes__lulu_ean"})
get_extraction_headers(all_headers) ==
    SelectSeq(all_headers, LAMBDA h : h \notin exclude_set)

\* The pass-through fields of a submitted form, as render_export reads them.
FormFields == [sku : {"SKU1"}, base_code : {"BC1"}, ean : {"", "629"},
               shipping_weight : {"", "2"}, color : {"", "Blue"}]

\* render_export's export_row: the pass-through fields of the form when a
\* form is there, then every header not yet in the row with its final value.
export_row(has_form, fields, all_headers, fv) ==
    LET input == IF has_form
                 THEN [h \in {"sku", "base_code", "attributes__lulu_ean",
                              "attributes__shipping_weight", "attributes__color"} |->
                          CASE h = "sku" -> fields.sku
                            [] h = "base_code" -> fields.base_code
                            [] h = "attributes__lulu_ean" -> fields.ean
                            [] h = "attributes__shipping_weight" -> fields.shipping_weight
                            [] OTHER -> fields.color]
                 ELSE <<>>
    IN  [h \in (DOMAIN input) \cup Range(all_headers) |->
            IF h \in DOMAIN input THEN input[h] ELSE Get(fv, h, "")]

\* Runs of the category TV from their extraction step to the stored matrix.
InitTV == ExtractionStep(RoundTripForms, get_extraction_headers(TV))

NextTV ==
    \/ ProcessSource \/ SkipSource \/ ReturnMatrix
    \/ ReturnRun \/ StoreResults

SpecTV == InitTV /\ [][NextTV]_vars

(***************************************************************************)
(* BS4Service.scrape_url step by step: its sleeps and its GETs              *)
(***************************************************************************)

\* `wait_time = 2 ** attempt`
wait_timeMutant(attempt) == 2
wait_time(attempt) == 2 ^ attempt

\* What the call does with the outside world: time.sleep(secs) and
\* self.session.get(url, ...) of attempt `attempt`, answered with resp.
Sleep(secs) == [kind |-> "sleep", attempt |-> 0, secs |-> secs, resp |-> ""]
SessionGet(attempt, resp) == [kind |-> "get", attempt |-> attempt, secs |-> 0, resp |-> resp]

\* `if attempt > 0: ... time.sleep(wait_time)`
Backoff(attempt) == IF attempt > 0 THEN <<Sleep(wait_time(attempt))>> ELSE <<>>

\* The `except` clauses leave the body of the loop for its next turn,
\* whatever was raised.
NextAttempt(attempt, resp) == attempt + 1

InitBS4 ==
    /\ ScrapeOff
    /\ ExtractOff
    /\ RunOff
    /\ ReconcileOff
    /\ bs4_url \in Urls
    /\ bs4_attempt = 0
    /\ bs4_last_error = None
    /\ bs4_io = <<>>
    /\ bs4_return = NoResult
    /\ service_call = NoServiceCalls
    /\ BrowserOff
    /\ FilterOff

\* One turn of `for attempt in range(self.max_retries)`: the wait, the GET,
\* and either the return of the page or the error kept in last_error.
BS4Attempt ==
    /\ bs4_return = NoResult
    /\ bs4_attempt < max_retries
    /\ \E resp \in BS4ResponsesFor(bs4_url) :
          /\ bs4_io' = bs4_io \o Backoff(bs4_attempt) \o <<SessionGet(bs4_attempt, resp)>>
          /\ IF resp \in {"200 product", "200 blank"}
             THEN /\ \E saveOk \in BOOLEAN :
                       bs4_return' =
                          Result(TRUE,
                                 HtmlToMarkdown(IF resp = "200 product" THEN "product"
                                                ELSE "blank"),
                                 None, SaveMarkdown("bs4", saveOk))
                  /\ UNCHANGED <<bs4_attempt, bs4_last_error>>
             ELSE /\ bs4_last_error' = BS4Error(resp)
                  /\ bs4_attempt' = NextAttempt(bs4_attempt, resp)
                  /\ UNCHANGED bs4_return
    /\ UNCHANGED <<browserVars, filterVars, scrapeVars, extractVars, runVars,
                   reconcileVars, bs4_url,
                   service_call>>

\* The loop is over without a page: the failure with last_error.
BS4GiveUp ==
    /\ bs4_return = NoResult
    /\ bs4_attempt >= max_retries
    /\ bs4_return' = Result(FALSE, "", bs4_last_error, "")
    /\ UNCHANGED <<browserVars, filterVars, scrapeVars, extractVars, runVars,
                   reconcileVars, bs4_url,
                   bs4_attempt, bs4_last_error, bs4_io, service_call>>

\* A caller hands the service another URL.
BS4Call ==
    /\ bs4_return # NoResult
    /\ bs4_url' \in Urls
    /\ bs4_attempt' = 0
    /\ bs4_last_error' = None
    /\ bs4_io' = <<>>
    /\ bs4_return' = NoResult
    /\ UNCHANGED <<browserVars, filterVars, scrapeVars, extractVars, runVars,
                   reconcileVars, service_call>>

NextBS4 == BS4Attempt \/ BS4GiveUp \/ BS4Call

SpecBS4 == InitBS4 /\ [][NextBS4]_vars

(***************************************************************************)
(* The services that need a credential, called on their own                *)
(***************************************************************************)

InitCredentials ==
    /\ ScrapeOff
    /\ ExtractOff
    /\ RunOff
    /\ ReconcileOff
    /\ ServiceOff
    /\ BrowserOff
    /\ FilterOff

\* FirecrawlService.scrape_url, with or without self.api_key.
FirecrawlCall ==
    /\ ~service_call.Firecrawl.called
    /\ \E configured \in BOOLEAN, u \in Urls, saveOk \in BOOLEAN :
          \E resps \in [0..(MAX_RETRIES - 1) -> FirecrawlResponsesFor(u)] :
             LET o == FirecrawlService_scrape_url(configured, resps, saveOk)
             IN  service_call' =
                    [service_call EXCEPT !.Firecrawl =
                        [called |-> TRUE, configured |-> configured, input |-> u,
                         responses |-> [i \in 1..o.requests |-> resps[i - 1]],
                         calls |-> o.requests, result |-> o.result,
                         values |-> <<>>]]
    /\ UNCHANGED <<browserVars, filterVars, scrapeVars, extractVars, runVars,
                   reconcileVars, bs4_url,
                   bs4_attempt, bs4_last_error, bs4_io, bs4_return>>

\* DeepSeekService.extract_attributes, with or without self.client.
DeepSeekCall ==
    /\ ~service_call.DeepSeek.called
    /\ \E client \in BOOLEAN, markdown_content \in Markdowns, reply \in ReplyKinds :
          LET e == extract_attributes(markdown_content, Headers, client, reply)
          IN  service_call' =
                 [service_call EXCEPT !.DeepSeek =
                     [called |-> TRUE, configured |-> client,
                      input |-> markdown_content,
                      responses |-> IF e.api THEN <<reply>> ELSE <<>>,
                      calls |-> IF e.api THEN 1 ELSE 0,
                      result |-> NoResult, values |-> e.values]]
    /\ UNCHANGED <<browserVars, filterVars, scrapeVars, extractVars, runVars,
                   reconcileVars, bs4_url,
                   bs4_attempt, bs4_last_error, bs4_io, bs4_return>>

\* Both calls are over; their caller goes on to other ones.
ServiceReturn ==
    /\ service_call.Firecrawl.called
    /\ service_call.DeepSeek.called
    /\ service_call' = NoServiceCalls
    /\ UNCHANGED <<browserVars, filterVars, scrapeVars, extractVars, runVars,
                   reconcileVars, bs4_url,
                   bs4_attempt, bs4_last_error, bs4_io, bs4_return>>

NextCredentials == FirecrawlCall \/ DeepSeekCall \/ ServiceReturn

SpecCredentials == InitCredentials /\ [][NextCredentials]_vars

(***************************************************************************)
(* PlaywrightService.scrape_url step by step: one browser session          *)
(***************************************************************************)

MaxHeight == 2
MaxMatches == 11

\* How the height of a page answers to scrolling: it stays ("static"), it
\* grows once by a scroll step as lazy content loads ("lazy"), or it grows by
\* a scroll step on every scroll ("endless", a feed that keeps loading).
Growths == {"static", "lazy", "endless"}

\* The pages a navigation can load: their content, their growth, and the
\* number of visible elements each locator of _expand_all_content finds.
LoadedPages == [content : Pages, growth : Growths, matches : 0..MaxMatches]

\* The locators of _expand_all_content, one of each kind, in the order of
\* the code: a selector of EXPAND_BUTTON_SELECTORS, the buttons and the
\* links/spans of a text pattern, and the Amazon expanders.
Locators == <<"selector", "button text", "link text", "amazon">>

\* `elements[:10]`, `buttons[:5]`, `links[:5]`, and `amazon_expanders` whole.
Sliced(kind, n) ==
    CASE kind = "selector" -> IF n < 10 THEN n ELSE 10
      [] kind \in {"button text", "link text"} -> IF n < 5 THEN n ELSE 5
      [] OTHER -> n

\* `new_height = ...; if new_height > page_height: page_height = new_height`
\* after `current_position += scroll_step`: what is left ahead of the
\* position, in scroll steps.
AheadAfterScrollMutant(ahead, growth) == ahead - 1
AheadAfterScroll(ahead, growth) == IF growth = "static" THEN ahead - 1 ELSE ahead

\* What the session amounts to for the rest of scrape_url.
SessionRun(raised, nav, content) ==
    IF raised THEN "exception"
    ELSE IF nav # "ok" THEN "navigation error"
    ELSE IF content = "product" THEN "loaded product" ELSE "loaded blank"

InitPlaywright ==
    /\ runtime \in {RunRuntime, [RunRuntime EXCEPT !.sync_playwright = FALSE]}
    /\ url = ""
    /\ method = "Auto"
    /\ last = NoCall
    /\ ExtractOff
    /\ RunOff
    /\ ReconcileOff
    /\ ServiceOff
    /\ FilterOff
    /\ pw_url \in Urls
    /\ ppc = "start"
    /\ launches = 0
    /\ navigation = "none"
    /\ page = NoPage
    /\ height_ahead = 0
    /\ locator = 0
    /\ clicks = <<>>
    /\ pw_return = NoResult

\* `if not sync_playwright: return {...}`
PWNotInstalled ==
    /\ ppc = "start"
    /\ ~runtime.sync_playwright
    /\ pw_return' = PlaywrightService_scrape_url(FALSE, "exception", TRUE).result
    /\ ppc' = "returned"
    /\ UNCHANGED <<scrapeVars, extractVars, runVars, reconcileVars, serviceVars,
                   filterVars, pw_url, launches, navigation, page, height_ahead,
                   locator, clicks>>

\* p.chromium.launch, new_context, new_page, add_init_script: the browser is
\* there, or one of them raised.
PWLaunch ==
    /\ ppc = "start"
    /\ runtime.sync_playwright
    /\ launches' = launches + 1
    /\ \E ok \in BOOLEAN :
          IF ok
          THEN /\ ppc' = "navigate"
               /\ UNCHANGED pw_return
          ELSE /\ ppc' = "returned"
               /\ pw_return' =
                     PlaywrightService_scrape_url(TRUE, SessionRun(TRUE, navigation,
                                                                   page.content),
                                                  TRUE).result
    /\ UNCHANGED <<scrapeVars, extractVars, runVars, reconcileVars, serviceVars,
                   filterVars, pw_url, navigation, page, height_ahead, locator,
                   clicks>>

\* `try: page.goto(...); page.wait_for_load_state(...) except: pass`, and the
\* first two evaluations of _scroll_to_load_content. A URL that cannot be
\* loaded leaves the browser on its empty start page.
PWNavigate ==
    /\ ppc = "navigate"
    /\ \/ /\ Strip(pw_url) # ""
          /\ navigation' = "ok"
          /\ page' \in LoadedPages
       \/ /\ navigation' = "failed"
          /\ page' = NoPage
    /\ height_ahead' \in 0..MaxHeight
    /\ ppc' = "scroll"
    /\ UNCHANGED <<scrapeVars, extractVars, runVars, reconcileVars, serviceVars,
                   filterVars, pw_url, launches, locator, clicks, pw_return>>

\* One turn of `while current_position < page_height`.
PWScroll ==
    /\ ppc = "scroll"
    /\ height_ahead > 0
    /\ height_ahead' = AheadAfterScroll(height_ahead, page.growth)
    /\ page' = IF page.growth = "lazy" THEN [page EXCEPT !.growth = "static"] ELSE page
    /\ UNCHANGED <<scrapeVars, extractVars, runVars, reconcileVars, serviceVars,
                   filterVars, pw_url, ppc, launches, navigation, locator, clicks,
                   pw_return>>

\* The loop is over (or an evaluation raised, which the method swallows):
\* back to the top, and on to _expand_all_content.
PWScrollDone ==
    /\ ppc = "scroll"
    /\ height_ahead <= 0
    /\ ppc' = "expand"
    /\ locator' = 1
    /\ UNCHANGED <<scrapeVars, extractVars, runVars, reconcileVars, serviceVars,
                   filterVars, pw_url, launches, navigation, page, height_ahead,
                   clicks, pw_return>>

\* One locator of _expand_all_content: a click on each element of its slice.
PWExpand ==
    /\ ppc = "expand"
    /\ locator <= Len(Locators)
    /\ clicks' = Append(clicks, Sliced(Locators[locator], page.matches))
    /\ locator' = locator + 1
    /\ UNCHANGED <<scrapeVars, extractVars, runVars, reconcileVars, serviceVars,
                   filterVars, pw_url, ppc, launches, navigation, page, height_ahead,
                   pw_return>>

\* page.wait_for_timeout, page.content, browser.close and the conversion to
\* markdown: the result, or the failure with what one of them raised.
PWContent ==
    /\ ppc = "expand"
    /\ locator > Len(Locators)
    /\ \E raised \in BOOLEAN, saveOk \in BOOLEAN :
          pw_return' =
             PlaywrightService_scrape_url(TRUE, SessionRun(raised, navigation,
                                                           page.content),
                                          saveOk).result
    /\ ppc' = "returned"
    /\ UNCHANGED <<scrapeVars, extractVars, runVars, reconcileVars, serviceVars,
                   filterVars, pw_url, launches, navigation, page, height_ahead,
                   locator, clicks>>

\* A caller hands the service another URL.
PWCall ==
    /\ ppc = "returned"
    /\ pw_url' \in Urls
    /\ ppc' = "start"
    /\ launches' = 0
    /\ navigation' = "none"
    /\ page' = NoPage
    /\ height_ahead' = 0
    /\ locator' = 0
    /\ clicks' = <<>>
    /\ pw_return' = NoResult
    /\ UNCHANGED <<scrapeVars, extractVars, runVars, reconcileVars, serviceVars,
                   filterVars>>

NextPlaywright ==
    \/ PWNotInstalled \/ PWLaunch \/ PWNavigate \/ PWScroll \/ PWScrollDone
    \/ PWExpand \/ PWContent \/ PWCall

SpecPlaywright == InitPlaywright /\ [][NextPlaywright]_vars

\* The session runs on its own thread of control: a step that can be taken
\* is taken.
FairSpecPlaywright == SpecPlaywright /\ WF_vars(NextPlaywright)

(***************************************************************************)
(* FirecrawlService._filter_markdown, line by line                         *)
(***************************************************************************)

MaxLines == 3

\* The lines of the model's markdown bodies, by what the patterns of
\* _filter_markdown make of them.
HeadingLines == {"## Reviews", "## Specifications", "## Related product details",
                 "## Shipping"}
TextLines == {"Weight 5 kg", "See full description"}
LinkBullet == "* [Home](/)"
TableRow == "| Weight | 5 kg |"
ManyLinks == "[a](1) [b](2) [c](3) [d](4)"
MarkdownLines == HeadingLines \cup TextLines \cup {LinkBullet, TableRow, ManyLinks, ""}

\* `re.match(pattern, line_lower)` for a pattern of noise_section_patterns.
MatchesNoiseSection(line) == line \in {"## Reviews", "## Related product details"}
\* `re.match(r'^#+\s+', line)`
IsHeading(line) == line \in HeadingLines
\* `gp in line_lower` for a pattern of good_patterns.
NamesGoodTopic(line) ==
    line \in {"## Specifications", "## Related product details", "See full description"}
\* `re.match(pattern, line)` for a pattern of noise_line_patterns.
MatchesNoiseLine(line) == line \in {LinkBullet, TableRow}
\* `line.count('](') > 3`
TooManyLinks(line) == line = ManyLinks

\* `if skip_section and re.match(r'^#+\s+', line): ... skip_section = False`
LeavesSectionMutant(line) == NamesGoodTopic(line)
LeavesSection(line) == IsHeading(line) /\ NamesGoodTopic(line)

\* skip_section after the two checks at the head of the loop body.
SkipAfter(skip, line) ==
    LET entered == skip \/ MatchesNoiseSection(line)
    IN  entered /\ ~LeavesSection(line)

\* The loop over the lines from position i on, with skip_section as the
\* turn before left it: filtered_lines.
RECURSIVE FilteredLines(_, _, _)
FilteredLines(lines, i, skip) ==
    IF i > Len(lines) THEN <<>>
    ELSE LET line == lines[i]
             skip_section == SkipAfter(skip, line)
             rest == FilteredLines(lines, i + 1, skip_section)
         IN  IF skip_section THEN rest
             ELSE IF TooManyLinks(line) THEN rest
             ELSE IF MatchesNoiseLine(line) THEN rest
             ELSE <<line>> \o rest

\* `re.sub(r'\n{4,}', '\n\n\n', result)` on the joined lines: of three or
\* more empty lines in a row between two lines two are left (the runs at
\* the ends are stripped next). `run` counts the empty lines just before
\* position i.
RECURSIVE CollapseEmpty(_, _, _)
CollapseEmpty(lines, i, run) ==
    IF i > Len(lines) THEN <<>>
    ELSE IF lines[i] = ""
    THEN IF run >= 2 /\ i > run + 1 THEN CollapseEmpty(lines, i + 1, run + 1)
         ELSE <<"">> \o CollapseEmpty(lines, i + 1, run + 1)
    ELSE <<lines[i]>> \o CollapseEmpty(lines, i + 1, 0)

\* `result.strip()`, on lines: the empty lines at both ends go (the lines of
\* the model have no white space at their ends).
RECURSIVE StripLines(_)
StripLines(lines) ==
    IF lines = <<>> THEN <<>>
    ELSE IF lines[1] = "" THEN StripLines(Tail(lines))
    ELSE IF lines[Len(lines)] = "" THEN StripLines(SubSeq(lines, 1, Len(lines) - 1))
    ELSE lines

\* _filter_markdown, from the lines of its argument to the lines of its
\* result (none for the empty string).
filter_markdown(lines) == StripLines(CollapseEmpty(FilteredLines(lines, 1, FALSE), 1, 0))

\* The bodies of the model: every body of up to MaxLines lines, and bodies
\* with runs of empty lines inside.
EmptyRunBodies ==
    {<<"Weight 5 kg", "", "", "", "See full description">>,
     <<"Weight 5 kg", "", "", "", "", "## Shipping">>,
     <<"## Shipping", "", "", "Weight 5 kg">>,
     <<"Weight 5 kg", "", "## Reviews", "", "", "## Specifications">>}
MarkdownBodies == UNION {[1..n -> MarkdownLines] : n \in 0..MaxLines} \cup EmptyRunBodies

InitMarkdown ==
    /\ ScrapeOff
    /\ ExtractOff
    /\ RunOff
    /\ ReconcileOff
    /\ ServiceOff
    /\ BrowserOff
    /\ filter_input \in MarkdownBodies
    /\ filter_output = NotRun

\* markdown_content = self._filter_markdown(raw_markdown)
FilterMarkdownCall ==
    /\ ~filter_output.ran
    /\ filter_output' = Ran(filter_markdown(filter_input))
    /\ UNCHANGED <<scrapeVars, extractVars, runVars, reconcileVars, serviceVars,
                   browserVars, filter_input>>

NextMarkdown == FilterMarkdownCall

SpecMarkdown == InitMarkdown /\ [][NextMarkdown]_vars

(***************************************************************************)
(* content_filter.clean_html_for_product on small documents                *)
(***************************************************************************)

REMOVE_TAGS == {"script", "style", "noscript", "iframe", "svg", "canvas",
                "header", "footer", "nav", "aside", "menu", "menuitem",
                "form", "input", "button", "select", "textarea"}

\* What NOISE_PATTERNS and PRODUCT_PATTERNS make of an attribute value:
\* "none" (no match, or no such attribute), "noise" (class="related"),
\* "product" (class="product-info"), "both" (class="related product-info").
\* An element of the model has its class, its id and one data-* attribute.
Attributes ==
    {[cls |-> "none", id |-> "none", data |-> "none"],
     [cls |-> "noise", id |-> "none", data |-> "none"],
     [cls |-> "none", id |-> "noise", data |-> "none"],
     [cls |-> "none", id |-> "none", data |-> "noise"],
     [cls |-> "product", id |-> "none", data |-> "none"],
     [cls |-> "both", id |-> "none", data |-> "none"],
     [cls |-> "both", id |-> "noise", data |-> "none"],
     [cls |-> "noise", id |-> "product", data |-> "none"],
     [cls |-> "none", id |-> "none", data |-> "both"],
     [cls |-> "noise", id |-> "none", data |-> "product"]}

\* The lengths of the text an element holds itself, in characters.
TextLengths == {0, 60, 120}

Element(tag, a, text, kids) ==
    [tag |-> tag, cls |-> a.cls, id |-> a.id, data |-> a.data, text |-> text,
     kids |-> kids]

\* The documents of the model: one element at the top, alone or with one
\* element inside.
TopTags == {"body", "div", "nav"}
InnerTags == {"p", "ul", "div", "nav", "h2"}
InnerElements ==
    {Element(t, a, x, <<>>) : t \in InnerTags, a \in Attributes, x \in TextLengths}
Documents ==
    {Element(t, a, x, ks) :
        t \in TopTags, a \in Attributes, x \in TextLengths,
        ks \in {<<>>} \cup {<<k>> : k \in InnerElements}}

\* _matches_pattern on an attribute value.
MatchesNoise(value) == value \in {"noise", "both"}
MatchesProduct(value) == value \in {"product", "both"}

is_noise_element(element) ==
    IF element.tag \in {"h1", "h2", "h3", "main", "article"} THEN FALSE
    ELSE \/ MatchesNoise(element.cls) /\ ~MatchesProduct(element.cls)
         \/ MatchesNoise(element.id) /\ ~MatchesProduct(element.id)
         \/ MatchesNoise(element.data)

is_product_element(element) ==
    MatchesProduct(element.cls) \/ MatchesProduct(element.id)

\* len(element.get_text(strip=True)): the text of the element and of what
\* is inside it.
TextLength(element) ==
    element.text + (IF element.kids = <<>> THEN 0 ELSE element.kids[1].text)

\* Step 1: every element with a tag of REMOVE_TAGS is decomposed, with what
\* is inside it. The soup is the sequence of its top elements.
RemoveTags(soup) ==
    IF soup = <<>> THEN <<>>
    ELSE IF soup[1].tag \in REMOVE_TAGS THEN <<>>
    ELSE <<[soup[1] EXCEPT !.kids = SelectSeq(@, LAMBDA k : k.tag \notin REMOVE_TAGS)]>>

\* Step 2, the test of one element: noise, no substantial text, no product
\* element itself and none inside.
SubstantialText == 100
ToRemove(element) ==
    /\ is_noise_element(element)
    /\ ~(TextLength(element) > SubstantialText)
    /\ ~is_product_element(element)
    /\ \A i \in 1..Len(element.kids) : ~is_product_element(element.kids[i])

\* elements_to_remove, by place: "top" and "inner".
ElementsToRemove(soup) ==
    IF soup = <<>> THEN {}
    ELSE (IF ToRemove(soup[1]) THEN {"top"} ELSE {})
         \cup (IF soup[1].kids # <<>> /\ ToRemove(soup[1].kids[1]) THEN {"inner"} ELSE {})

RemoveNoise(soup) ==
    IF soup = <<>> THEN <<>>
    ELSE IF ToRemove(soup[1]) THEN <<>>
    ELSE <<[soup[1] EXCEPT !.kids = SelectSeq(@, LAMBDA k : ~ToRemove(k))]>>

\* Step 3: the elements without text go (the documents of the model hold
\* no img and no table).
RemoveEmpty(soup) ==
    IF soup = <<>> THEN <<>>
    ELSE IF TextLength(soup[1]) = 0 THEN <<>>
    ELSE <<[soup[1] EXCEPT !.kids = SelectSeq(@, LAMBDA k : TextLength(k) # 0)]>>

\* Step 4 and the return: the product container with the most text (the
\* first of them in document order when they tie), else the body, else the
\* soup. The result is the sequence of elements of the returned markup;
\* the empty string is the empty sequence.
MainContainer(soup) ==
    LET top == soup[1]
        inner == top.kids
    IN  IF is_product_element(top) THEN <<top>>
        ELSE IF inner # <<>> /\ is_product_element(inner[1]) THEN <<inner[1]>>
        ELSE soup

clean_html_for_product(document) ==
    LET cleaned == RemoveEmpty(RemoveNoise(RemoveTags(<<document>>)))
    IN  [html |-> IF cleaned = <<>> THEN <<>> ELSE MainContainer(cleaned),
         removed_as_noise |-> ElementsToRemove(RemoveTags(<<document>>)),
         after_tags |-> RemoveTags(<<document>>)]

InitHtml ==
    /\ ScrapeOff
    /\ ExtractOff
    /\ RunOff
    /\ ReconcileOff
    /\ ServiceOff
    /\ BrowserOff
    /\ filter_input \in Documents
    /\ filter_output = NotRun

\* cleaned_html = clean_html_for_product(raw_html)
CleanHtmlCall ==
    /\ ~filter_output.ran
    /\ filter_output' = Ran(clean_html_for_product(filter_input))
    /\ UNCHANGED <<scrapeVars, extractVars, runVars, reconcileVars, serviceVars,
                   browserVars, filter_input>>

NextHtml == CleanHtmlCall

SpecHtml == InitHtml /\ [][NextHtml]_vars

(***************************************************************************)
(* A fetch with and without a writable artifact directory                  *)
(***************************************************************************)

NoResponses == [k \in 0..(max_retries - 1) |-> "none"]
NoRun == [kind |-> "none", raw |-> "", html |-> "none"]

\* The fetches of the model: a variant, and what the site, the engine, the
\* browser or the API does when the variant is called for GoodUrl.
Fetch(v, resps, crawl, session) ==
    [variant |-> v, responses |-> resps, crawl |-> crawl, session |-> session]
Fetches ==
    {Fetch("BS4", resps, NoRun, "none") :
        resps \in [0..(max_retries - 1) -> BS4ResponsesFor(GoodUrl)]}
    \cup {Fetch("Crawl4AI", NoResponses, run, "none") : run \in Crawl4AIRuns}
    \cup {Fetch("Playwright", NoResponses, NoRun, run) : run \in PlaywrightRuns}
    \cup {Fetch("Firecrawl", resps, NoRun, "none") :
              resps \in [0..(MAX_RETRIES - 1) -> FirecrawlResponsesFor(GoodUrl)]}

\* scrape_url of the fetch's variant, every package and key being there.
FetchOutcome(fetch, saveOk) ==
    CASE fetch.variant = "BS4" -> BS4Service_scrape_url(fetch.responses, saveOk)
      [] fetch.variant = "Crawl4AI" -> Crawl4AIService_scrape_url(TRUE, fetch.crawl, saveOk)
      [] fetch.variant = "Playwright" ->
            PlaywrightService_scrape_url(TRUE, fetch.session, saveOk)
      [] OTHER -> FirecrawlService_scrape_url(TRUE, fetch.responses, saveOk)

InitSave ==
    /\ ScrapeOff
    /\ ExtractOff
    /\ RunOff
    /\ ReconcileOff
    /\ ServiceOff
    /\ BrowserOff
    /\ filter_input \in Fetches
    /\ filter_output = NotRun

\* The fetch made twice: with _save_markdown writing its file, and with the
\* write raising.
FetchTwice ==
    /\ ~filter_output.ran
    /\ filter_output' = Ran([saved |-> FetchOutcome(filter_input, TRUE),
                             unsaved |-> FetchOutcome(filter_input, FALSE)])
    /\ UNCHANGED <<scrapeVars, extractVars, runVars, reconcileVars, serviceVars,
                   browserVars, filter_input>>

NextSave == FetchTwice

SpecSave == InitSave /\ [][NextSave]_vars

(***************************************************************************)
(* Claims about the ScrapingManager (checked under SpecScrape)             *)
(***************************************************************************)

Done == last # NoCall
InvokedVariants == [i \in 1..Len(last.invoked) |-> last.invoked[i].variant]
IsPrefix(s, t) == Len(s) <= Len(t) /\ \A i \in 1..Len(s) : s[i] = t[i]
Positions(line) == {i \in 1..Len(last.log) : last.log[i] = line}
IsTrying(line) == \E v \in Variants : line = "Auto: Trying " \o v
\* The fallback order without the variants whose service object is None.
HeldOrder == SelectSeq(AutoOrder, LAMBDA v : ServiceHeld(v, runtime))

\* What C1 says of a finished Auto call apart from which order the invoked
\* variants are a prefix of: each variant at most once, every variant before
\* the last one returned failure, the call returns what the last one returned,
\* a call that ends in failure has tried every variant of the order, the
\* 'Trying' lines are those of the invoked variants in order, and the line of
\* every variant but the first follows the 'Failed' line of the one before.
AutoChainShape(order) ==
    /\ IsPrefix(InvokedVariants, order)
    /\ Len(last.invoked) >= 1
    /\ \A i \in 1..(Len(last.invoked) - 1) :
          Returned(last.invoked[i].result) /\ ~last.invoked[i].result.success
    /\ last.result = last.invoked[Len(last.invoked)].result
    /\ (Returned(last.result) /\ ~last.result.success => InvokedVariants = order)
    /\ SelectSeq(last.log, IsTrying)
         = [i \in 1..Len(last.invoked) |-> "Auto: Trying " \o InvokedVariants[i]]
    /\ \A i \in 2..Len(last.invoked) :
          \E f \in Positions(InvokedVariants[i - 1] \o " Failed") :
              \A t \in Positions("Auto: Trying " \o InvokedVariants[i]) : f < t
    /\ (last.invoked[1].result.success => InvokedVariants = <<"BS4">>)

\* C1 as stated: in Automatic mode the invoked variants are a prefix of
\* BS4, Crawl4AI, Playwright, Firecrawl, each invoked only after every
\* earlier one returned failure, and the first success ends the chain.
C1_AutoPrefixOfFixedOrder ==
    Done /\ method = "Auto" => AutoChainShape(AutoOrder)

\* C1 amended: in Automatic mode the invoked variants are a prefix of the
\* fixed order restricted to the variants whose service object the manager
\* holds, each invoked only after every earlier invoked one returned failure,
\* and the first success ends the chain.
C1_AutoPrefixOfHeldOrder ==
    Done /\ method = "Auto" => AutoChainShape(HeldOrder)

\* A fallback happened: BS4 and Crawl4AI failed and Playwright succeeded.
C1_Witness ==
    /\ Done /\ method = "Auto" /\ url = GoodUrl
    /\ InvokedVariants = <<"BS4", "Crawl4AI", "Playwright">>
    /\ last.result.success /\ last.result.markdown = TEXT

\* A result as section 3 of the specification wants it.
WellFormed(r) ==
    /\ r.success <=> (Truthy(r.markdown) /\ r.error = None)
    /\ ~r.success <=> r.markdown = ""

\* C2: every result returned by a variant or by the manager has success true
\* exactly when its markdown is non-empty and its error null, and success
\* false exactly when its markdown is the empty string.
C2_ResultWellFormed ==
    Done =>
        /\ Returned(last.result) => WellFormed(last.result)
        /\ \A i \in 1..Len(last.invoked) :
              Returned(last.invoked[i].result) => WellFormed(last.invoked[i].result)

\* The optional package behind a variant is missing from the runtime.
DependencyAbsent(v) ==
    \/ v = "Crawl4AI" /\ ~runtime.CRAWL4AI_AVAILABLE
    \/ v = "Playwright" /\ ~runtime.sync_playwright

\* C3: in Automatic mode a variant whose optional dependency is absent is
\* never called and no failure is logged for it.
C3_AbsentDependencySkipped ==
    Done /\ method = "Auto" =>
        \A v \in Variants :
            DependencyAbsent(v) =>
                /\ \A i \in 1..Len(last.invoked) : last.invoked[i].variant # v
                /\ Positions(v \o " Failed") = {}

\* C4: the manager called with an empty or whitespace-only URL returns a
\* failure with error "Empty URL" and invokes no variant, whatever the method.
C4_EmptyUrlShortCircuits ==
    Done /\ Strip(url) = "" =>
        /\ last.invoked = <<>>
        /\ Returned(last.result)
        /\ ~last.result.success
        /\ last.result.error = "Empty URL"

\* C5: with an explicit method the manager invokes the named variant only,
\* once, and returns its result (or raises what it raised); when the named
\* service object is missing it invokes nothing and returns a 'not
\* available' failure.
C5_ExplicitDispatch ==
    Done /\ method \in Variants =>
        IF ServiceHeld(method, runtime)
        THEN /\ InvokedVariants = <<method>>
             /\ last.result = last.invoked[1].result
        ELSE /\ last.invoked = <<>>
             /\ Returned(last.result)
             /\ ~last.result.success
             /\ last.result.markdown = ""
             /\ last.result.error = method \o " service not available"

\* The named variant failed and nothing else was tried.
C5_Witness ==
    /\ Done /\ method = "Crawl4AI" /\ runtime.crawl4ai_service
    /\ InvokedVariants = <<"Crawl4AI">>
    /\ Returned(last.result) /\ ~last.result.success

(***************************************************************************)
(* Claims about the coordinator (checked under SpecExtract)                *)
(***************************************************************************)

Returned_Matrix == epc = "returned"
KeysOfSources == {markdown_contents[i].key : i \in 1..Len(markdown_contents)}
CallsFor(key) == {i \in 1..Len(extractor_calls) : extractor_calls[i].key = key}
ErrorReplies == {"exception", "unparsable", "not object"}

\* C6: the returned matrix has, for every requested attribute and every
\* source key of the sources map, an entry, whatever the sources and the
\* extractor did.
C6_MatrixTotal ==
    Returned_Matrix =>
        /\ DOMAIN results = Range(headers)
        /\ \A h \in Range(headers) : DOMAIN results[h] = KeysOfSources

\* A run with a failed source, an extractor error, an answer with missing
\* keys and no entry missing.
C6_Witness ==
    /\ Returned_Matrix
    /\ \E i \in 1..Len(markdown_contents) : ~markdown_contents[i].success
    /\ \E i \in 1..Len(extractor_calls) : extractor_calls[i].reply = "exception"
    /\ \E i \in 1..Len(extractor_calls) :
          /\ extractor_calls[i].reply = "object partial"
          /\ results[headers[Len(headers)]][extractor_calls[i].key] = ""
          /\ results[headers[1]][extractor_calls[i].key] = "Black"

\* C8: the extractor is invoked exactly once for each source with
\* success=true and non-empty markdown and never for the other sources,
\* which get the empty string for every attribute.
C8_ExtractorOncePerAvailableSource ==
    Returned_Matrix =>
        \A i \in 1..Len(markdown_contents) :
            LET src == markdown_contents[i]
            IN  IF src.success /\ src.markdown # ""
                THEN Cardinality(CallsFor(src.key)) = 1
                ELSE /\ CallsFor(src.key) = {}
                     /\ \A h \in Range(headers) : results[h][src.key] = ""

\* Sources of every kind in one run: one with content, one successful with
\* empty markdown, one failed with markdown.
C8_Witness ==
    /\ Returned_Matrix
    /\ Len(extractor_calls) >= 1
    /\ \E i \in 1..Len(markdown_contents) :
          markdown_contents[i].success /\ markdown_contents[i].markdown = ""
    /\ \E i \in 1..Len(markdown_contents) :
          ~markdown_contents[i].success /\ markdown_contents[i].markdown # ""

\* C9: when the extractor raises or answers unparsable output for a source,
\* that source gets the empty string for every attribute, and every later
\* source with content is still handed to the extractor and its values are
\* written to the matrix.
C9_ExtractorFailureDoesNotAbort ==
    Returned_Matrix =>
        \A c \in 1..Len(extractor_calls) :
            extractor_calls[c].reply \in ErrorReplies =>
                /\ \A h \in Range(headers) : results[h][extractor_calls[c].key] = ""
                /\ \A i \in 1..Len(markdown_contents) :
                      LET src == markdown_contents[i]
                      IN  (/\ \E j \in 1..(i - 1) :
                                 markdown_contents[j].key = extractor_calls[c].key
                           /\ HasContent(src))
                          => \E d \in CallsFor(src.key) :
                                /\ d > c
                                /\ \A h \in Range(headers) :
                                      h \in DOMAIN results /\ src.key \in DOMAIN results[h]
                                      /\ results[h][src.key]
                                           = IF extractor_calls[d].reply \in ErrorReplies
                                             THEN ""
                                             ELSE Get(ReplyObject(extractor_calls[d].reply,
                                                                  headers), h, "")

\* The extractor raised for url1 and its answer for a later source is in
\* the matrix.
C9_Witness ==
    /\ Returned_Matrix
    /\ Len(extractor_calls) >= 2
    /\ extractor_calls[1].key = "url1"
    /\ extractor_calls[1].reply = "exception"
    /\ extractor_calls[2].reply = "object full"
    /\ results[headers[1]][extractor_calls[2].key] = "Black"

(***************************************************************************)
(* Claims about the pipeline run (checked under SpecRun)                   *)
(***************************************************************************)

\* C7: after every completed run, whichever sources failed and whichever
\* credentials are missing, the operator is given a matrix with an entry for
\* every extraction attribute of the category, never an empty or absent one.
C7_MatrixAfterEveryRun ==
    rpc = "stored" =>
        /\ MatrixShown
        /\ DOMAIN extraction_results.dict = Range(Headers)
        /\ \A h \in Range(Headers) :
              \A i \in 1..Len(scraped_results) :
                  scraped_results[i].key \in DOMAIN extraction_results.dict[h]

(***************************************************************************)
(* Claims about reconciliation (checked under SpecReconcile)               *)
(***************************************************************************)

\* The positions in the priority order url1, url2, url3, document of the
\* sources whose value for an attribute is not the empty string.
NonEmptySources(url_values) ==
    {i \in 1..Len(SourceKeys) : Get(url_values, SourceKeys[i], "") # ""}

\* C10: after best-available reconciliation every attribute with a
\* non-empty value in some source has as its final value the first
\* non-empty value in the order url1, url2, url3, document.
C10_BestAvailableFirstNonEmpty ==
    action = "autofill_best" =>
        \A h \in Range(current_headers) :
            LET url_values == Get(current_results, h, <<>>)
            IN  NonEmptySources(url_values) # {} =>
                    /\ h \in DOMAIN final_values
                    /\ final_values[h]
                         = url_values[SourceKeys[First(NonEmptySources(url_values))]]

\* The actions of single-source reconciliation and the source of each.
UseActions == {"use_url1", "use_url2", "use_url3"}
UsedKey(a) ==
    CASE a = "use_url1" -> "url1" [] a = "use_url2" -> "url2" [] OTHER -> "url3"

\* The entry of h in the final values is the same before and after a step.
EntryUnchanged(h) ==
    /\ h \in DOMAIN final_values <=> h \in DOMAIN final_values'
    /\ h \in DOMAIN final_values => final_values'[h] = final_values[h]

\* What a step of single-source reconciliation does, `Takes(v)` saying for
\* which values of the source the final value is set.
SingleSourceStep(Takes(_)) ==
    action' \in UseActions =>
        \A h \in (DOMAIN final_values) \cup Range(current_headers) :
            LET v == Get(Get(current_results, h, <<>>), UsedKey(action'), "")
            IN  /\ (h \in Range(current_headers) /\ Takes(v))
                      => h \in DOMAIN final_values' /\ final_values'[h] = v
                /\ (h \notin Range(current_headers) \/ v = "") => EntryUnchanged(h)
                /\ h \in DOMAIN final_values => h \in DOMAIN final_values'

\* C11 as stated: single-source reconciliation for S sets the final value
\* to S's value when that value is not the empty string, and leaves the
\* entry of every attribute whose S value is empty as it was.
C11_SingleSourceNonEmpty ==
    [][SingleSourceStep(LAMBDA v : v # "")]_vars

\* C11 amended: single-source reconciliation for S sets the final value to
\* S's value when that value is not blank, leaves the entry of every
\* attribute whose S value is empty as it was, and removes no entry.
C11_SingleSourceNonBlank ==
    [][SingleSourceStep(NonBlank)]_vars

\* Use URL 3 took url3's value for one attribute and left the operator's
\* own text for an attribute whose url3 value is empty.
C11_Witness ==
    /\ action = "use_url3"
    /\ \E h \in Range(current_headers) :
          /\ current_results[h]["url3"] = ""
          /\ h \in DOMAIN final_values /\ final_values[h] = "Manual"
    /\ \E h \in Range(current_headers) :
          /\ current_results[h]["url3"] = "White"
          /\ h \in DOMAIN final_values /\ final_values[h] = "White"

(***************************************************************************)
(* Claims about a session (checked under SpecSession)                      *)
(***************************************************************************)

\* A step of a pipeline run: the form is submitted, process_extraction
\* moves, its matrix is stored, the page is rendered again.
RunStep ==
    /\ rpc \in {"start", "scrape", "extract", "returned", "stored"}
          \/ rpc' = "start"
    /\ action' # "reset"

\* C12: a pipeline run leaves the final values as they were; they change
\* only with an operator action on the table or a session reset.
C12_RunKeepsFinalValues ==
    [][RunStep => final_values' = final_values]_vars

\* A second run was stored and rendered with a selection made after the
\* first run still in the final values.
C12_Witness ==
    /\ rpc = "shown"
    /\ action = "submit"
    /\ MatrixShown
    /\ \E h \in DOMAIN final_values : final_values[h] = "Manual"
    /\ \E h \in DOMAIN final_values : final_values[h] = "Black"

\* The actions that apply a reconciliation policy.
IsPolicy(a) == a \notin {"none", "submit", "reset"}

\* C13: every reconciliation policy is idempotent: the same policy applied
\* again to the same matrix (the same button, the same value button, the
\* same text typed into the same field) leaves the final values as the
\* first application left them, whatever they were before.
C13_PoliciesIdempotent ==
    [][(IsPolicy(action') /\ action' = action) => final_values' = final_values]_vars

\* Auto-fill Best was applied to final values that held the operator's own
\* text: it filled an attribute and left the text of another.
C13_Witness ==
    /\ action = "autofill_best"
    /\ \E h \in DOMAIN final_values : final_values[h] = "Manual"
    /\ \E h \in DOMAIN final_values :
          /\ final_values[h] \notin {"", "Manual"}
          /\ \E k \in DOMAIN current_results[h] :
                current_results[h][k] = final_values[h]

\* C14: after the clear action no attribute has a final value, whatever
\* the final values held before.
C14_ClearEmptiesFinalValues ==
    [][action' = "clear_all" => DOMAIN final_values' = {}]_vars

\* Clear All was pressed in app.py's table: no final value, and every
\* text_final widget emptied.
C14_Witness ==
    /\ action = "clear_all"
    /\ ui = "app"
    /\ DOMAIN final_values = {}
    /\ \A i \in 1..Len(current_headers) : text_final[i] = ""

(***************************************************************************)
(* Claims about the coordinator and the table together (SpecRoundTrip)     *)
(***************************************************************************)

\* Every source of a sources map failed.
AllFailed(sources) == \A i \in 1..Len(sources) : ~sources[i].success

\* Every attribute of the header list has the empty string for every one
\* of the source keys.
AllEmptyMatrix(matrix, hs, keys) ==
    /\ DOMAIN matrix = Range(hs)
    /\ \A h \in Range(hs) :
          /\ DOMAIN matrix[h] = keys
          /\ \A k \in keys : matrix[h][k] = ""

\* C15: with every source failing extract_from_multiple_sources returns a
\* matrix with the empty string for every attribute and source key, and
\* best-available reconciliation of such a matrix from empty final values
\* leaves no non-empty final value.
C15_AllFailedRoundTrip ==
    [][/\ (epc' = "returned" /\ AllFailed(markdown_contents'))
            => AllEmptyMatrix(results', headers',
                              {markdown_contents'[i].key :
                                  i \in 1..Len(markdown_contents')})
       /\ (/\ action' = "autofill_best"
           /\ DOMAIN final_values = {}
           /\ \E keys \in SUBSET Range(SourceKeys) :
                 AllEmptyMatrix(current_results, current_headers, keys))
            => \A h \in DOMAIN final_values' : final_values'[h] = ""]_vars

\* Auto-fill Best was pressed on the all-empty matrix of a run whose three
\* URLs gave nothing, and there is no final value.
C15_Witness ==
    /\ rpc = "shown"
    /\ action = "autofill_best"
    /\ AllEmptyMatrix(current_results, Headers, {"url1", "url2", "url3"})
    /\ extraction_results = Stored(current_results)
    /\ \A h \in DOMAIN final_values : final_values[h] = ""

(***************************************************************************)
(* Claims about the category TV (checked under SpecTV)                     *)
(***************************************************************************)

\* The sources of the run that succeeded with content.
SuccessfulSources == {i \in 1..Len(scraped_results) : HasContent(scraped_results[i])}

\* The exported row has a column for every extraction header of TV,
\* whatever the form's pass-through fields, with no final value filled.
TVColumnsExported ==
    /\ DOMAIN final_values = {}
    /\ \A fields \in FormFields :
          Range(get_extraction_headers(TV))
              \subseteq DOMAIN export_row(TRUE, fields, TV, final_values)

\* C16 as stated: TV has exactly 48 extraction headers; a run with one
\* successful source stores a matrix with exactly those keys, each holding
\* exactly one source entry; the exported row has a column for each.
C16_TVHas48Headers ==
    /\ Len(get_extraction_headers(TV)) = 48
    /\ (rpc = "stored" /\ Cardinality(SuccessfulSources) = 1) =>
          /\ DOMAIN extraction_results.dict = Range(get_extraction_headers(TV))
          /\ \A h \in Range(get_extraction_headers(TV)) :
                Cardinality(DOMAIN extraction_results.dict[h]) = 1
          /\ TVColumnsExported

\* C16 amended: TV has exactly 47 extraction headers; a run with one
\* successful source stores a matrix with exactly those keys, each holding
\* one entry for every source key of the run, the extractor's value for the
\* successful source and the empty string for the others; the exported row
\* has a column for each.
C16_TVHas47Headers ==
    /\ Len(get_extraction_headers(TV)) = 47
    /\ Cardinality(Range(get_extraction_headers(TV))) = 47
    /\ (rpc = "stored" /\ Cardinality(SuccessfulSources) = 1) =>
          /\ DOMAIN extraction_results.dict = Range(get_extraction_headers(TV))
          /\ \A h \in Range(get_extraction_headers(TV)) :
                /\ DOMAIN extraction_results.dict[h]
                      = {scraped_results[i].key : i \in 1..Len(scraped_results)}
                /\ \A i \in 1..Len(scraped_results) :
                      i \notin SuccessfulSources
                          => extraction_results.dict[h][scraped_results[i].key] = ""
          /\ TVColumnsExported

\* The run of a form with one URL, scraped with success, is stored: url1
\* holds the extractor's values, url2 and url3 the empty string.
C16_Witness ==
    /\ rpc = "stored"
    /\ SuccessfulSources = {1}
    /\ Len(scraped_results) = 3
    /\ extraction_results.dict["attributes__mounting_type"]
          = [url1 |-> "Black", url2 |-> "", url3 |-> ""]

(***************************************************************************)
(* Claims about errors and credentials                                     *)
(***************************************************************************)

\* C17: ScrapingManager.scrape_url returns a result for every URL, method
\* and outcome of the underlying calls, also for an HTTP 200 answer whose
\* body is not the expected JSON object; no exception leaves it.
C17_ManagerAlwaysReturns ==
    Done =>
        /\ Returned(last.result)
        /\ \A i \in 1..Len(last.invoked) : Returned(last.invoked[i].result)

\* C18: without an API key FirecrawlService.scrape_url returns the failure
\* "Firecrawl API key not configured" and issues no HTTP request, and without
\* an API key (no client) DeepSeekService.extract_attributes returns the
\* empty string for every header and makes no model call.
C18_NoCredentialNoCall ==
    /\ (service_call.Firecrawl.called /\ ~service_call.Firecrawl.configured) =>
          /\ Returned(service_call.Firecrawl.result)
          /\ ~service_call.Firecrawl.result.success
          /\ service_call.Firecrawl.result.error = "Firecrawl API key not configured"
          /\ service_call.Firecrawl.calls = 0
    /\ (service_call.DeepSeek.called /\ ~service_call.DeepSeek.configured) =>
          /\ service_call.DeepSeek.values = AllEmpty(Headers)
          /\ service_call.DeepSeek.calls = 0

\* Both services called without their key, Firecrawl for a URL that
\* could be fetched and DeepSeek for a page that could be read.
C18_Witness ==
    /\ service_call.Firecrawl.called
    /\ ~service_call.Firecrawl.configured
    /\ service_call.Firecrawl.input = GoodUrl
    /\ service_call.DeepSeek.called
    /\ ~service_call.DeepSeek.configured
    /\ service_call.DeepSeek.input = TEXT

(***************************************************************************)
(* Claims about the retries of BS4Service (checked under SpecBS4)          *)
(***************************************************************************)

\* The positions of the GETs among what the call did, in order.
GetsOf(io) == SelectSeq(io, LAMBDA e : e.kind = "get")
Page200(resp) == resp \in {"200 product", "200 blank"}

\* C19: BS4Service.scrape_url issues at most 3 requests; a successful
\* attempt is the last thing the call does before it returns its page;
\* the attempt with index k >= 1 comes right after a sleep of 2^k seconds,
\* the first attempt comes first, and there is no other sleep; and a failure
\* is returned after three failed attempts with the error of the last one.
C19_BS4Retries ==
    LET gets == GetsOf(bs4_io)
    IN  /\ Len(gets) <= 3
        /\ \A k \in 1..Len(gets) : gets[k].attempt = k - 1
        /\ \A i \in 1..Len(bs4_io) :
              /\ (bs4_io[i].kind = "get" /\ Page200(bs4_io[i].resp)) =>
                    /\ i = Len(bs4_io)
                    /\ Returned(bs4_return)
                    /\ bs4_return.success
              /\ (bs4_io[i].kind = "get" /\ bs4_io[i].attempt = 0) => i = 1
              /\ (bs4_io[i].kind = "get" /\ bs4_io[i].attempt >= 1) =>
                    /\ i > 1
                    /\ bs4_io[i - 1].kind = "sleep"
                    /\ bs4_io[i - 1].secs = 2 ^ bs4_io[i].attempt
              /\ bs4_io[i].kind = "sleep" =>
                    /\ i < Len(bs4_io)
                    /\ bs4_io[i + 1].kind = "get"
        /\ (Returned(bs4_return) /\ ~bs4_return.success) =>
              /\ Len(gets) = 3
              /\ \A k \in 1..3 : ~Page200(gets[k].resp)
              /\ bs4_return.error = BS4Error(gets[3].resp)

\* A call that failed after a blocked, a rate-limited and a timed-out
\* attempt, with its two waits.
C19_Witness ==
    /\ Returned(bs4_return)
    /\ ~bs4_return.success
    /\ bs4_url = GoodUrl
    /\ Len(bs4_io) = 5
    /\ bs4_io[1].resp = "403"
    /\ bs4_io[3].resp = "429"
    /\ bs4_io[5].resp = "timeout"
    /\ bs4_return.error = "Request timed out"

\* C20: a permanent fetch error (HTTP 403 or 404, a malformed URL) is not
\* retried: no request follows the attempt that met it.
C20_PermanentNotRetried ==
    \A i \in 1..Len(bs4_io) :
        (bs4_io[i].kind = "get" /\ bs4_io[i].resp \in {"403", "404", "invalid url"}) =>
            \A j \in (i + 1)..Len(bs4_io) : bs4_io[j].kind # "get"

(***************************************************************************)
(* Claims about the retries of FirecrawlService (SpecCredentials)          *)
(***************************************************************************)

Is200(resp) == resp \in {"200 markdown", "200 empty", "200 noise", "200 bad shape"}

\* C21: FirecrawlService.scrape_url with its key issues at most 3 requests;
\* every answer before the last one was a non-200 answer, a timeout or a
\* request error; a 200 answer ends the call with a success result; and a
\* failed last answer is the third one, the result being a failure with
\* the error of that answer.
C21_FirecrawlRetries ==
    LET c == service_call.Firecrawl
    IN  (c.called /\ c.configured) =>
            /\ c.calls \in 1..3
            /\ Len(c.responses) = c.calls
            /\ \A i \in 1..(c.calls - 1) : ~Is200(c.responses[i])
            /\ Is200(c.responses[c.calls]) =>
                  /\ Returned(c.result)
                  /\ c.result.success
            /\ ~Is200(c.responses[c.calls]) =>
                  /\ c.calls = 3
                  /\ Returned(c.result)
                  /\ ~c.result.success
                  /\ c.result.error = FirecrawlError(c.responses[3])

(***************************************************************************)
(* Claims about the browser session (checked under SpecPlaywright)         *)
(***************************************************************************)

\* C22: PlaywrightService.scrape_url launches the browser at most once; a
\* navigation that failed or timed out ends the fetch with a failure result
\* carrying an error; and a success result is returned only when the
\* navigation to the URL succeeded.
C22_PlaywrightFailsOnAnyError ==
    ppc = "returned" =>
        /\ launches <= 1
        /\ Returned(pw_return)
        /\ pw_return.success => navigation = "ok"
        /\ navigation = "failed" =>
              /\ ~pw_return.success
              /\ pw_return.error # None

\* C27: the content-revealing phase ends: a session that entered the scroll
\* loop of _scroll_to_load_content leaves it, whatever the page does when
\* it is scrolled, and _expand_all_content clicks at most 10 elements for a
\* locator.
C27_RevealTerminates ==
    /\ (ppc = "scroll") ~> (ppc = "expand")
    /\ [](\A i \in 1..Len(clicks) : clicks[i] <= 10)

(***************************************************************************)
(* Claims about the order of a run (checked under SpecRun)                 *)
(***************************************************************************)

KeyIndex(k) == CHOOSE i \in 1..Len(SourceKeys) : SourceKeys[i] = k
KeysInOrder(seq) ==
    \A i, j \in 1..Len(seq) : i < j => KeyIndex(seq[i].key) < KeyIndex(seq[j].key)

\* The step of a run that handles URL i: its result joins the sources.
UrlStep(i) ==
    /\ Len(scraped_results') = Len(scraped_results) + 1
    /\ scraped_results'[Len(scraped_results')].key = SourceKeys[i]
\* The step that reads the uploaded document.
DocumentStep == rpc = "start" /\ rpc' # "start" /\ form_data.pdf_file # "none"

\* The URLs are handled one after the other in the order url1, url2, url3,
\* and the extractor takes the sources in the order url1, url2, url3, pdf.
UrlsAndExtractionInOrder ==
    /\ \A i \in 1..3 : UrlStep(i) => (url_index = i /\ Len(scraped_results) = i - 1)
    /\ KeysInOrder(scraped_results')
    /\ KeysInOrder(markdown_contents')
    /\ KeysInOrder(extractor_calls')

\* C23 (as stated): the sources are handled one at a time in the order url1,
\* url2, url3, document; the document is read after the three URLs; the
\* extractor is invoked on the sources in that order.
C23_DocumentAfterUrls ==
    [][/\ UrlsAndExtractionInOrder
       /\ DocumentStep => Len(scraped_results) = 3]_vars

\* C23 (amended): the URLs are handled one at a time in the order url1,
\* url2, url3; the document is read before the first URL and joins the
\* sources after the third; the extractor is invoked on the sources in
\* the order url1, url2, url3, document.
C23_DocumentReadFirst ==
    [][/\ UrlsAndExtractionInOrder
       /\ DocumentStep => (scraped_results = <<>> /\ url_index = 0)
       /\ (Len(scraped_results') = 4) => scraped_results'[4].key = "pdf"]_vars

\* A run of three URLs and a document in which the extractor was called for
\* all four sources.
C23_Witness ==
    /\ rpc = "extract"
    /\ epc = "returned"
    /\ Len(extractor_calls) = 4
    /\ extractor_calls[1].key = "url1"
    /\ extractor_calls[4].key = "pdf"

(***************************************************************************)
(* Claims about the markdown denoiser (checked under SpecMarkdown)         *)
(***************************************************************************)

\* The lines of doc at the positions of I, in order.
LinesAt(doc, I) ==
    [n \in 1..Cardinality(I) |->
        doc[CHOOSE i \in I : Cardinality({j \in I : j <= i}) = n]]
NonEmptyLines(doc) == LinesAt(doc, {i \in 1..Len(doc) : doc[i] # ""})
\* The number of empty lines between the n-th non-empty line and the next.
GapAfter(doc, n) ==
    LET I == {i \in 1..Len(doc) : doc[i] # ""}
        at(m) == CHOOSE i \in I : Cardinality({j \in I : j <= i}) = m
    IN  at(n + 1) - at(n) - 1
NoiseLine(line) == line \in {LinkBullet, TableRow, ManyLinks}

\* The positions of doc in a skipped section, for a section that a line of
\* Enters opens and that the next line of Leaves after it closes.
SkippedPositions(doc, Enters(_), Leaves(_)) ==
    {i \in 1..Len(doc) :
        \E j \in 1..i : /\ Enters(doc[j])
                        /\ \A k \in (j + 1)..i : ~Leaves(doc[k])}
KeptPositions(doc, Enters(_), Leaves(_)) ==
    {i \in 1..Len(doc) : /\ i \notin SkippedPositions(doc, Enters, Leaves)
                         /\ ~NoiseLine(doc[i])}
GoodHeading(line) == line \in {"## Specifications", "## Related product details"}
NoiseHeading(line) == line \in {"## Reviews", "## Related product details"}
NoiseOnlyHeading(line) == line = "## Reviews"

\* C24 (as stated): the result is the body without its skipped sections, a
\* section running from a heading of a noise topic (dropped with it) to the
\* next heading of a good topic, and without the link-only bullets, the
\* pipe-table rows and the lines of more than 3 links; every other line is
\* kept.
C24_SectionsDroppedLinesKept ==
    filter_output.ran =>
        filter_output.value =
            LinesAt(filter_input, KeptPositions(filter_input, NoiseHeading, GoodHeading))

\* C24 (amended): a section is opened by a heading of a noise topic that
\* names no good topic; the non-empty lines of the result are the non-empty
\* lines outside the sections that are no link-only bullets, pipe-table rows
\* or lines of more than 3 links; the result neither begins nor ends with an
\* empty line, and between two of its lines there are as many empty lines
\* as in the body between them outside the sections, but at most two.
C24_SectionsDroppedEmptyLinesTrimmed ==
    filter_output.ran =>
        LET kept == LinesAt(filter_input,
                            KeptPositions(filter_input, NoiseOnlyHeading, GoodHeading))
            out == filter_output.value
            n == Len(NonEmptyLines(out))
        IN  /\ NonEmptyLines(out) = NonEmptyLines(kept)
            /\ out # <<>> => (out[1] # "" /\ out[Len(out)] # "")
            /\ \A m \in 1..(n - 1) :
                  GapAfter(out, m) =
                     (IF GapAfter(kept, m) > 2 THEN 2 ELSE GapAfter(kept, m))

\* The denoiser was given a review section with a line naming a good topic
\* inside and the specifications after it, and a body with four empty lines
\* between two kept lines.
C24_Witness ==
    /\ filter_output.ran
    /\ \/ /\ filter_input = <<"## Reviews", "See full description", "## Specifications">>
          /\ filter_output.value = <<"## Specifications">>
       \/ /\ filter_input = <<"Weight 5 kg", "", "", "", "", "## Shipping">>
          /\ filter_output.value = <<"Weight 5 kg", "", "", "## Shipping">>

(***************************************************************************)
(* Claims about the HTML filter (checked under SpecHtml)                   *)
(***************************************************************************)

\* The element of a soup at a place.
ElementAt(soup, place) == IF place = "top" THEN soup[1] ELSE soup[1].kids[1]
MatchesAnyNoise(e) == MatchesNoise(e.cls) \/ MatchesNoise(e.id) \/ MatchesNoise(e.data)
MatchesAnyProduct(e) ==
    MatchesProduct(e.cls) \/ MatchesProduct(e.id) \/ MatchesProduct(e.data)

\* C25: an element that the noise step removes matches a NOISE pattern and
\* no PRODUCT pattern through its class, id or data attribute, holds at most
\* 100 characters of text, and has no element inside that matches a PRODUCT
\* pattern.
C25_NoiseStepSparesProduct ==
    filter_output.ran =>
        \A place \in filter_output.value.removed_as_noise :
            LET e == ElementAt(filter_output.value.after_tags, place)
            IN  /\ MatchesAnyNoise(e)
                /\ ~MatchesAnyProduct(e)
                /\ TextLength(e) <= 100
                /\ \A i \in 1..Len(e.kids) : ~MatchesAnyProduct(e.kids[i])

HoldsText(e) == e.tag \in {"p", "ul", "ol"} /\ e.text > 0
HasParagraphOrList(document) ==
    \/ HoldsText(document)
    \/ \E i \in 1..Len(document.kids) : HoldsText(document.kids[i])

\* C26: clean_html_for_product does not return the empty string for a
\* document that holds a paragraph or a list with text, wherever it sits.
C26_NeverEmptyWithParagraph ==
    (filter_output.ran /\ HasParagraphOrList(filter_input)) =>
        filter_output.value.html # <<>>

(***************************************************************************)
(* Claims about the artifact store (checked under SpecSave)                *)
(***************************************************************************)

\* C28: for every variant, a fetch that succeeds when its markdown file is
\* written also succeeds when the write fails, with the same markdown, no
\* error and the same requests; only the file name is empty.
C28_SaveFailureKeepsOutcome ==
    (filter_output.ran /\ filter_output.value.saved.result.success) =>
        LET saved == filter_output.value.saved
            unsaved == filter_output.value.unsaved
        IN  /\ Returned(unsaved.result)
            /\ unsaved.result.success
            /\ unsaved.result.markdown = saved.result.markdown
            /\ unsaved.result.error = None
            /\ unsaved.result.filename = ""
            /\ saved.result.filename # ""
            /\ unsaved.requests = saved.requests

\* A BS4 fetch that got its page at the second attempt, and a Firecrawl
\* fetch that got its markdown at the first, each made with the write of
\* the file failing.
C28_Witness ==
    /\ filter_output.ran
    /\ filter_output.value.unsaved.result.success
    /\ filter_output.value.unsaved.result.filename = ""
    /\ \/ /\ filter_input.variant = "BS4"
          /\ filter_input.responses[0] = "503"
          /\ filter_input.responses[1] = "200 product"
       \/ /\ filter_input.variant = "Firecrawl"
          /\ filter_input.responses[0] = "200 markdown"

(***************************************************************************)
(* Claims about the exported row and about Auto-fill Best                  *)
(* (checked under SpecReconcile)                                           *)
(***************************************************************************)

\* The headers render_export is called with: the category's headers, the
\* pass-through fields first and the extraction headers after them.
CategoryHeaders ==
    <<"sku", "base_code", "attributes__lulu_ean", "attributes__shipping_weight">>
        \o current_headers

\* C29 as stated: for every extraction header of the category, the value in
\* the exported row equals the attribute's final value, the empty string
\* when it has none, whatever the pass-through fields of the form hold.
C29_ExportedValueIsFinalValue ==
    \A fields \in FormFields :
       \A h \in Range(get_extraction_headers(CategoryHeaders)) :
          export_row(TRUE, fields, CategoryHeaders, final_values)[h]
              = Get(final_values, h, "")

\* Every source of the attribute's row of the matrix holds the empty string.
EmptyInEverySource(matrix, h) ==
    \A k \in DOMAIN Get(matrix, h, <<>>) : matrix[h][k] = ""

\* The two maps agree on the entry of h: both lack it, or both hold the
\* same value.
SameEntry(fv, after, h) ==
    /\ (h \in DOMAIN fv) <=> (h \in DOMAIN after)
    /\ h \in DOMAIN fv => after[h] = fv[h]

\* An attribute of another category, left in final_values by an earlier run
\* of the session.
LeftOver == "attributes__os" :> "Android"

\* The Auto-fill Best of the table in use.
BestAvailable(matrix, hs, fv) ==
    IF ui = "app" THEN AppAutoFillBest(matrix, hs, fv)
    ELSE ComponentAutoFillBest(matrix, hs, fv)

\* C30: a step of Auto-fill Best leaves the final_values entry of every
\* header whose values are empty in every source as it was (absent or with
\* its value), leaves every entry outside the header list as it was, and
\* does the same when final_values also holds an attribute of another
\* category.
C30_BestAvailableKeepsEmptyRows ==
    [][action' = "autofill_best" =>
          /\ \A h \in Range(current_headers) :
                EmptyInEverySource(current_results, h)
                    => SameEntry(final_values, final_values', h)
          /\ \A h \in (DOMAIN final_values) \ Range(current_headers) :
                SameEntry(final_values, final_values', h)
          /\ LET fv == LeftOver @@ final_values
                 after == BestAvailable(current_results, current_headers, fv)
             IN  /\ SameEntry(fv, after, "attributes__os")
                 /\ \A h \in Range(current_headers) :
                       EmptyInEverySource(current_results, h)
                           => SameEntry(fv, after, h)]_vars

\* Auto-fill Best was pressed on a matrix with an attribute that is empty in
\* every source and whose final value the operator had typed, and another
\* attribute was filled from a source.
C30_Witness ==
    /\ action = "autofill_best"
    /\ \E h \in Range(current_headers) :
          /\ EmptyInEverySource(current_results, h)
          /\ h \in DOMAIN final_values
          /\ final_values[h] = "Manual"
    /\ \E g \in Range(current_headers) :
          /\ ~EmptyInEverySource(current_results, g)
          /\ g \in DOMAIN final_values
          /\ \E k \in DOMAIN current_results[g] :
                /\ current_results[g][k] # ""
                /\ final_values[g] = current_results[g][k]

=============================================================================
